---- MODULE Spec2Model ----
(***************************************************************************)
(* A model of the BusinessGame economy core: the JSON ledger documents     *)
(* (users, stocks, equity, purchased upgrades, market), the income         *)
(* functions, the hourly stock ticker, the equity stake flows, the battle  *)
(* engine and the minigame rating adjustment.                              *)
(*                                                                         *)
(* Units.  Python floats that only ever hold short decimals are kept as    *)
(* scaled integers:                                                        *)
(*   rating            hundredths       (1.0  is 100)                      *)
(*   stock current_pct tenths of a %    (50.0 is 500)                      *)
(*   boost_pct         tenths of a %    (5.0  is 50)                       *)
(*   equity pct        whole percent                                       *)
(*   time              seconds                                             *)
(* Slot indices are 1-based here (Python slot_index + 1).                  *)
(***************************************************************************)
EXTENDS Integers, Sequences, FiniteSets, TLC

VARIABLES
    now,              \* time.time()
    users,            \* users.json: uid -> [balance, slots, purchased_slots]
    stocks,           \* stocks.json: [current_pct, last_tick, history]
    equity,           \* equity.json: owner -> slot -> list of {investor_id, pct, paid}
    trades,           \* how many stake purchases and sales have been applied
    purchases,        \* purchased_upgrades.json: owner -> slot -> list of entries
    market,           \* market.json: [upgrades, last_id]
    views,            \* live UI views and modals of the stake / upgrade flows
    battles,          \* BattleView objects, by session number
    ONGOING_BATTLES,  \* compete._ONGOING_BATTLES: uid -> session number (0: absent)
    handlers,         \* handlers suspended at an await, and open modals
    minigames,        \* SellingView objects, by game number
    ACTIVE_MINIGAMES, \* minigame.ACTIVE_MINIGAMES: uid -> message id (0: absent)
    last              \* what the handler that ran last did (its reply and effect)

vars == <<now, users, stocks, equity, trades, purchases, market, views, battles,
          ONGOING_BATTLES, handlers, minigames, ACTIVE_MINIGAMES, last>>

-----------------------------------------------------------------------------
(* Bounds of the model *)

\* The clock stops advancing here (seconds after Epoch0).
MaxClockSteps == 4
\* Live views of the upgrade flows at any one time.
MaxViews == 2
\* Stake flows: selections on display, and as many modals, at any one time.
MaxBrowsing == 1
\* Stake flows: purchase and sale confirmations pending at any one time.
MaxConfirms == 2
\* Stake purchases and sales applied in a run.
MaxTrades == 3
\* Upgrades ever listed on the market.
MaxUpgrades == 1

-----------------------------------------------------------------------------
(* Program constants *)

SELL_MULTIPLIER_NUM == 1
SELL_MULTIPLIER_DEN == 2
TICK_SECONDS == 3600
DAY_SECONDS == 86400
HISTORY_KEEP == 48
BOT_PCT_MAX == 1000
STOCKS_PCT_MAX == 2000
DEFAULT_PCT == 500
SELL_HOLD_SECONDS == 600

Users == {"u1", "u2", "u3"}
None == [none |-> TRUE]

Max(a, b) == IF a >= b THEN a ELSE b
Min(a, b) == IF a <= b THEN a ELSE b

\* Python round() of the non-negative rational n/d: to nearest, ties to even.
PyRound(n, d) ==
    LET q == n \div d
        r == n % d
    IN  IF 2 * r < d THEN q
        ELSE IF 2 * r > d THEN q + 1
        ELSE IF q % 2 = 0 THEN q ELSE q + 1

\* Python int() of the non-negative rational n/d: truncation.
PyInt(n, d) == n \div d

\* The last n elements of a list (Python s[-n:]).
LastN(s, n) == IF Len(s) <= n THEN s ELSE SubSeq(s, Len(s) - n + 1, Len(s))

-----------------------------------------------------------------------------
(* Stock ticker: bot.py (background task) and commands/stocks.py (user-facing) *)

\* The per-step change random.uniform(-10.0, 10.0), in tenths of a percent.
TickDeltas == {-100, -50, 50, 100}

\* The for-loop of the tickers: one step per delta in ds, clamped to [0, cap].
RECURSIVE TickSteps(_, _, _)
TickSteps(data, ds, cap) ==
    IF ds = <<>> THEN data
    ELSE LET curr == Max(0, Min(cap, data.current_pct + Head(ds)))
             t    == data.last_tick + TICK_SECONDS
         IN  TickSteps([current_pct |-> curr,
                        last_tick   |-> t,
                        history     |-> Append(data.history, [t |-> t, pct |-> curr])],
                       Tail(ds), cap)

\* How many steps a tick call applies to the document `data` at time t.
StepsDue(data, t) ==
    IF data.last_tick <= 0 \/ t - data.last_tick < TICK_SECONDS THEN 0
    ELSE (t - data.last_tick) \div TICK_SECONDS

\* A ticker that moves last_tick to the time of the call.
TickWithToNow(data, t, ds, cap) ==
    IF data.last_tick <= 0 \/ t - data.last_tick < TICK_SECONDS THEN data
    ELSE [TickSteps(data, ds, cap) EXCEPT !.last_tick = t]

\* The body shared by the two tickers: initialise an unset last_tick, do
\* nothing within the hour, else apply the steps and keep 48 samples.
TickWith(data, t, ds, cap) ==
    IF data.last_tick <= 0
    THEN [data EXCEPT !.last_tick = t,
                      !.history = IF data.history = <<>>
                                  THEN <<[t |-> t, pct |-> data.current_pct]>>
                                  ELSE data.history]
    ELSE IF t - data.last_tick < TICK_SECONDS THEN data
    ELSE LET stepped == TickSteps(data, ds, cap)
         IN  [stepped EXCEPT !.history = LastN(stepped.history, HISTORY_KEEP)]

\* bot.py: clamps to [0, 100].
_tick_stocks_if_needed(data, t, ds) == TickWith(data, t, ds, BOT_PCT_MAX)

\* commands/stocks.py: clamps to [0, 200].
_tick_if_needed(data, t, ds) == TickWith(data, t, ds, STOCKS_PCT_MAX)

\* commands/stocks.py: income_per_day := round(base * pct/100) for every slot.
StockAppliedSlot(slot, stock_pct) ==
    IF slot = None THEN slot
    ELSE LET new_income == Max(0, PyRound(slot.base_income_per_day * stock_pct, 1000))
         IN  IF slot.income_per_day # new_income
             THEN [slot EXCEPT !.income_per_day = new_income]
             ELSE slot

_apply_stock_to_all_users(data, stock_pct) ==
    [uid \in DOMAIN data |->
        [data[uid] EXCEPT !.slots =
            [i \in DOMAIN data[uid].slots |->
                StockAppliedSlot(data[uid].slots[i], stock_pct)]]]

-----------------------------------------------------------------------------
(* Income model: commands/passive.py, commands/compete.py, commands/stocks.py *)

RECURSIVE SumBoost(_)
SumBoost(ups) == IF ups = <<>> THEN 0 ELSE Head(ups).boost_pct + SumBoost(Tail(ups))

\* passive._total_boost_pct with owner_id and slot_index given: the ledger
\* entries of (owner, slot) are summed and returned, also when there are none.
_total_boost_pct(slot, owner_id, slot_index) ==
    SumBoost(purchases[owner_id][slot_index])

\* An effective income that a boost divides instead of multiplying.
EffectiveOfBoostDivides(slot, boost_pct) ==
    Max(0, PyRound(slot.income_per_day * slot.rating * 1000, 100 * (1000 + boost_pct)))

\* max(0, int(round(base * rating * (1 + boost/100)))) with
\* base = slot['income_per_day'].
EffectiveOf(slot, boost_pct) ==
    Max(0, PyRound(slot.income_per_day * slot.rating * (1000 + boost_pct),
                   100 * 1000))

_effective_income_per_day(slot, owner_id, slot_index) ==
    EffectiveOf(slot, _total_boost_pct(slot, owner_id, slot_index))

\* slot.get('last_collected_at') or slot.get('created_at') or _now()
LastCollected(slot, t) ==
    IF slot.last_collected_at # 0 THEN slot.last_collected_at
    ELSE IF slot.created_at # 0 THEN slot.created_at ELSE t

\* passive._calc_accrued_for_slot: int(days * rate) + pending_collect.
_calc_accrued_for_slot(slot, owner_id, slot_index, t) ==
    LET rate    == _effective_income_per_day(slot, owner_id, slot_index)
        elapsed == Max(0, t - LastCollected(slot, t))
    IN  PyInt(elapsed * rate, DAY_SECONDS) + slot.pending_collect

\* passive._sell_value: int(effective * SELL_MULTIPLIER + accrued).
_sell_value(slot, owner_id, slot_index, t) ==
    LET effective == _effective_income_per_day(slot, owner_id, slot_index)
        accrued   == _calc_accrued_for_slot(slot, owner_id, slot_index, t)
    IN  PyInt(effective * SELL_MULTIPLIER_NUM + accrued * SELL_MULTIPLIER_DEN,
              SELL_MULTIPLIER_DEN)

\* stocks._sell_value_for_slot: rating only, no boosts, no pending_collect.
_sell_value_for_slot(slot, t) ==
    LET effective == Max(0, PyRound(slot.income_per_day * slot.rating, 100))
        elapsed   == Max(0, t - LastCollected(slot, t))
        accrued   == PyInt(elapsed * effective, DAY_SECONDS)
    IN  PyInt(effective * SELL_MULTIPLIER_NUM + accrued * SELL_MULTIPLIER_DEN,
              SELL_MULTIPLIER_DEN)

\* compete._effective_income_calc: the same formula as passive's.
_effective_income_calc(slot, owner_id, slot_index) ==
    EffectiveOf(slot, SumBoost(purchases[owner_id][slot_index]))

\* compete._display_income / passive's disp_inc:
\* int(round(eff * stock_factor)), stock_factor = pct / 50.0 (0 if pct == 0).
_display_income(slot, owner_id, slot_index) ==
    PyRound(_effective_income_calc(slot, owner_id, slot_index) * stocks.current_pct,
            500)

-----------------------------------------------------------------------------
(* The store after three users have each created one business *)

Epoch0 == DAY_SECONDS
ClockStep == TICK_SECONDS \div 2

\* passive.CreateBusinessModal.on_submit: the record written for a new business
\* whose judged scores total `total`.
NewBusiness(name, total, t) ==
    LET base_income == IF total > 0 THEN total ELSE 1
    IN  [name |-> name,
         income_per_day |-> base_income,
         base_income_per_day |-> base_income,
         rating |-> 100,
         wins |-> 0,
         losses |-> 0,
         created_at |-> t,
         last_collected_at |-> t,
         total_earned |-> 0,
         products_sold |-> 0,
         pending_collect |-> 0,
         upgrades |-> <<>>]

\* The judged score totals of the three businesses.
ScoreOf(uid) == CASE uid = "u1" -> 30 [] uid = "u2" -> 20 [] OTHER -> 12

\* passive._ensure_user, followed for the users in `owners` by one business
\* creation; bal[uid] is the balance the user has by then (100 at first,
\* moved since by rewards, penalties and purchases).
UsersWith(bal, owners) ==
    [uid \in Users |->
        [balance |-> bal[uid],
         slots |-> IF uid \in owners
                   THEN <<NewBusiness(uid, ScoreOf(uid), Epoch0)>>
                   ELSE <<None>>,
         purchased_slots |-> 0]]

\* stocks._load_stocks: the default document.
InitStocks ==
    [current_pct |-> DEFAULT_PCT,
     last_tick |-> Epoch0,
     history |-> <<[t |-> Epoch0, pct |-> DEFAULT_PCT]>>]

SlotIdx == {1}

Quiet == [op |-> "none", reply |-> "", steps |-> 0, judged |-> <<>>]

InitStore(bal, owners) ==
    /\ now = Epoch0
    /\ users = UsersWith(bal, owners)
    /\ stocks = InitStocks
    /\ equity = [uid \in Users |-> [i \in SlotIdx |-> <<>>]]
    /\ trades = 0
    /\ purchases = [uid \in Users |-> [i \in SlotIdx |-> <<>>]]
    /\ market = [upgrades |-> <<>>, last_id |-> 0]
    /\ views = {}
    /\ battles = <<>>
    /\ ONGOING_BATTLES = [uid \in Users |-> 0]
    /\ handlers = {}
    /\ minigames = <<>>
    /\ ACTIVE_MINIGAMES = [uid \in Users |-> 0]
    /\ last = Quiet

\* Views and modals that hold the same data are told apart by a copy
\* number n; the copy with the highest number is the one answered first.
SameView(v, w) == [v EXCEPT !.n = 0] = [w EXCEPT !.n = 0]
Open(vs, v) == vs \cup {[v EXCEPT !.n = 1 + Cardinality({w \in vs : SameView(v, w)})]}
Answerable == {v \in views : \A w \in views : SameView(v, w) => w.n <= v.n}
RoomForView == Cardinality(views) < MaxViews

\* any(s is not None for s in slots)
HasBusiness(user) == \E i \in DOMAIN user.slots : user.slots[i] # None

Did(op, reply) == [op |-> op, reply |-> reply, steps |-> 0, judged |-> <<>>]

\* The same, for a step that a judge decided: what the judge was given and
\* answered, as far as the decision used it.
Judged(op, reply, input) == [Did(op, reply) EXCEPT !.judged = input]

-----------------------------------------------------------------------------
(* Actions: the clock and the stock ticker *)

\* Time passes.
Advance ==
    /\ now + ClockStep <= Epoch0 + MaxClockSteps * ClockStep
    /\ now' = now + ClockStep
    /\ last' = Did("advance", "")
    /\ UNCHANGED <<users, stocks, equity, trades, purchases, market, views, battles,
                   ONGOING_BATTLES, handlers, minigames, ACTIVE_MINIGAMES>>

\* bot._stocks_task: one iteration of the polling loop.  It ticks the stock
\* document and does not touch users.json.
StocksTask ==
    \E ds \in [1..StepsDue(stocks, now) -> TickDeltas] :
        /\ stocks' = _tick_stocks_if_needed(stocks, now, ds)
        /\ last' = [Did("_stocks_task", "") EXCEPT !.steps = Len(ds)]
        /\ UNCHANGED <<now, users, equity, trades, purchases, market, views, battles,
                       ONGOING_BATTLES, handlers, minigames, ACTIVE_MINIGAMES>>

\* The body shared by the /stocks command and the Refresh button:
\* _tick_if_needed(), then _apply_stock_to_all_users(current_pct).
TickAndApply(op) ==
    \E ds \in [1..StepsDue(stocks, now) -> TickDeltas] :
        LET data == _tick_if_needed(stocks, now, ds)
        IN  /\ stocks' = data
            /\ users' = _apply_stock_to_all_users(users, data.current_pct)
            /\ last' = [Did(op, "stocks_embed") EXCEPT !.steps = Len(ds)]
            /\ UNCHANGED <<now, equity, trades, purchases, market, views, battles,
                           ONGOING_BATTLES, handlers, minigames, ACTIVE_MINIGAMES>>

\* stocks.StocksCommand.setup.stocks
StocksCommand == TickAndApply("/stocks")

\* stocks.StocksView.refresh
StocksViewRefresh == TickAndApply("refresh")

-----------------------------------------------------------------------------
(* Actions: the upgrade market, commands/market.py *)

\* The totals _score_upgrade_with_gemini returns here: 0 (both scores 0) and
\* 10 (the fallback (5, 5, 10, 5.0)).
UpgradeTotals == {0, 10}

\* The draft CreateUpgradeModal.on_submit builds from the judged total:
\* boost_pct = total / 2.0 percent, price = 100 + 50 * total.
Draft(uid, total) ==
    [creator_id |-> uid, total |-> total, boost_pct |-> 5 * total,
     price |-> 100 + 50 * total]

Drafts == {v \in Answerable : v.kind = "ChooseSellerBusinessView"}

\* market.CreateUpgradeModal.on_submit
CreateUpgradeModal_on_submit ==
    \E uid \in Users, total \in UpgradeTotals :
        /\ RoomForView
        /\ market.last_id + Cardinality({v \in views : v.kind = "ChooseSellerBusinessView"}) < MaxUpgrades
        /\ IF ~HasBusiness(users[uid])
           THEN /\ views' = views
                /\ last' = Did("CreateUpgradeModal.on_submit", "need_business")
           ELSE /\ views' = Open(views,
                      [n |-> 0, kind |-> "ChooseSellerBusinessView",
                       user |-> uid, draft |-> Draft(uid, total)])
                /\ last' = Did("CreateUpgradeModal.on_submit", "choose_business")
        /\ UNCHANGED <<now, users, stocks, equity, trades, purchases, market, battles,
                       ONGOING_BATTLES, handlers, minigames, ACTIVE_MINIGAMES>>

\* market.ChooseSellerBusinessView.finalize_create (interaction_check lets
\* only the creator through)
finalize_create ==
    \E v \in Drafts, slot_index \in SlotIdx :
        LET user == users[v.user]
            id == market.last_id + 1
            upgrade == [id |-> id,
                        creator_id |-> v.draft.creator_id,
                        seller_slot_index |-> slot_index,
                        total |-> v.draft.total,
                        boost_pct |-> v.draft.boost_pct,
                        price |-> v.draft.price]
        IN  /\ views' = views \ {v}
            /\ IF slot_index \notin DOMAIN user.slots \/ user.slots[slot_index] = None
               THEN /\ market' = market
                    /\ last' = Did("finalize_create", "invalid_business")
               ELSE /\ market' = [upgrades |-> <<upgrade>> \o market.upgrades,
                                  last_id |-> id]
                    /\ last' = Did("finalize_create", "created")
            /\ UNCHANGED <<now, users, stocks, equity, trades, purchases, battles,
                           ONGOING_BATTLES, handlers, minigames, ACTIVE_MINIGAMES>>

\* market.UpgradeSelect.callback: the menu a user has open may list an upgrade
\* that has been bought since (any id issued so far).
UpgradeSelect_callback ==
    \E user_id \in Users, id \in 1..market.last_id :
        LET found == SelectSeq(market.upgrades, LAMBDA u : u.id = id)
            user == users[user_id]
        IN  /\ RoomForView
            /\ IF found = <<>>
               THEN /\ views' = views
                    /\ last' = Did("UpgradeSelect.callback", "not_found")
               ELSE IF Head(found).creator_id = user_id
               THEN /\ views' = views
                    /\ last' = Did("UpgradeSelect.callback", "own_product")
               ELSE IF ~HasBusiness(user)
               THEN /\ views' = views
                    /\ last' = Did("UpgradeSelect.callback", "need_business")
               ELSE IF user.balance < Head(found).price
               THEN /\ views' = views
                    /\ last' = Did("UpgradeSelect.callback", "not_enough_funds")
               ELSE /\ views' = Open(views,
                          [n |-> 0, kind |-> "ApplyUpgradeView",
                           user |-> user_id, upgrade |-> Head(found)])
                    /\ last' = Did("UpgradeSelect.callback", "choose_business")
            /\ UNCHANGED <<now, users, stocks, equity, trades, purchases, market, battles,
                           ONGOING_BATTLES, handlers, minigames, ACTIVE_MINIGAMES>>

\* The buyer's slot after the upgrade is applied:
\* income_per_day := max(0, int(round(current * (1 + boost_pct/100)))).
UpgradedSlot(slot, upgrade) ==
    [slot EXCEPT
        !.income_per_day = Max(0, PyRound(slot.income_per_day * (1000 + upgrade.boost_pct), 1000)),
        !.upgrades = Append(slot.upgrades, [id |-> upgrade.id, boost_pct |-> upgrade.boost_pct])]

\* The seller's slot credited with the sale, when it still holds a business.
CreditedSlot(slot, price) ==
    IF slot = None THEN slot
    ELSE [slot EXCEPT !.products_sold = slot.products_sold + 1,
                      !.pending_collect = slot.pending_collect + price]

\* market.ApplyUpgradeView.apply_to_slot.  The message is ephemeral: the user
\* who opened it is the one who answers it.
apply_to_slot ==
    \E v \in {w \in Answerable : w.kind = "ApplyUpgradeView"}, slot_index \in SlotIdx :
        LET user_id == v.user
            user == users[user_id]
            up == v.upgrade
            seller_id == up.creator_id
            seller_slot == up.seller_slot_index
            bought == [users EXCEPT
                         ![user_id].balance = user.balance - up.price,
                         ![user_id].slots[slot_index] = UpgradedSlot(user.slots[slot_index], up)]
            credited == IF seller_slot \in DOMAIN bought[seller_id].slots
                        THEN [bought EXCEPT ![seller_id].slots[seller_slot] =
                                  CreditedSlot(bought[seller_id].slots[seller_slot], up.price)]
                        ELSE bought
            reject(reply) ==
                /\ last' = Did("apply_to_slot", reply)
                /\ UNCHANGED <<users, purchases, market>>
        IN  /\ views' = views \ {v}
            /\ IF up.creator_id = user_id THEN reject("own_product")
               ELSE IF slot_index \notin DOMAIN user.slots \/ user.slots[slot_index] = None
               THEN reject("invalid_slot")
               ELSE IF user.balance < up.price THEN reject("not_enough_funds")
               ELSE IF \E k \in DOMAIN user.slots[slot_index].upgrades :
                           user.slots[slot_index].upgrades[k].id = up.id
               THEN reject("already_applied")
               ELSE /\ users' = credited
                    /\ purchases' = [purchases EXCEPT ![user_id][slot_index] =
                           Append(@, [id |-> up.id, boost_pct |-> up.boost_pct])]
                    /\ market' = [market EXCEPT !.upgrades =
                           SelectSeq(@, LAMBDA u : u.id # up.id)]
                    /\ last' = Did("apply_to_slot", "applied")
            /\ UNCHANGED <<now, stocks, equity, trades, battles, ONGOING_BATTLES,
                           handlers, minigames, ACTIVE_MINIGAMES>>

-----------------------------------------------------------------------------
(* Equity percentages are Python floats (IEEE-754 binary64).               *)
(*                                                                         *)
(* A percentage the user types has one decimal; the float that holds it,   *)
(* and every sum or difference of such floats, is written exactly as       *)
(*     t/10 + e * F64_UNIT,     F64_UNIT = 2^-60 / 5,                       *)
(* a record [t, e] of two integers: t tenths of a percent and e the        *)
(* binary rounding error.  t/10 is 2^59 * t units.  A float in             *)
(* [2^k, 2^(k+1)) is a multiple of 2^(k-52), which is 5 * 2^(k+8) units, so *)
(* rounding to nearest-even needs the value only modulo 5 * 2^16.          *)
(***************************************************************************)

\* 5 * 2^16 units: twice the spacing of the floats in [128, 256).
F64_MOD == 5 * 2^16
\* 2^59 modulo F64_MOD: 2^16 * (2^43 mod 5).
F64_TENTH == 3 * 2^16

\* The spacing, in units, of the floats around the positive value [t, e]:
\* lo is a power of two in eightieths of a percent, L the spacing of the
\* floats from lo up.
RECURSIVE UlpOf(_, _, _, _)
UlpOf(t, e, lo, L) ==
    IF lo <= 5 \/ 8 * t > lo \/ (8 * t = lo /\ e >= 0) THEN L
    ELSE UlpOf(t, e, lo \div 2, L \div 2)

\* Round-to-nearest, ties-to-even, of the exact value [t, e]: the error part
\* of the float that results.  A value with t = 0 is exact (it is zero, or
\* the difference of two floats that are within a factor of two).
FRound(t, e) ==
    IF t = 0 THEN e
    ELSE LET L == UlpOf(t, e, 10240, F64_MOD \div 2)
             p == (t * F64_TENTH + e) % F64_MOD
             r == p % L
         IN  IF r = 0 THEN e
             ELSE IF 2 * r < L THEN e - r
             ELSE IF 2 * r > L THEN e + L - r
             ELSE IF ((p - r) \div L) % 2 = 0 THEN e - r ELSE e + L - r

\* float("<t/10>"): the float nearest to the decimal typed.
ParsePct(t) == [t |-> t, e |-> FRound(t, 0)]

\* a + b and a - b on floats.
FAdd(a, b) == [t |-> a.t + b.t, e |-> FRound(a.t + b.t, a.e + b.e)]
FSub(a, b) == [t |-> a.t - b.t, e |-> FRound(a.t - b.t, a.e - b.e)]

\* a > b on floats.
FGt(a, b) == a.t > b.t \/ (a.t = b.t /\ a.e > b.e)

F0 == [t |-> 0, e |-> 0]
F100 == [t |-> 1000, e |-> 0]

\* x > 1e-6 for a float x that is a decimal with one digit, give or take
\* rounding errors (which are far below 1e-6).
FGtEps(x) == x.t > 0

-----------------------------------------------------------------------------
(* Actions: equity stakes, commands/stocks.py.                             *)
(* A view or modal is a record [n, kind, user, owner_id, slot_index,       *)
(* sell_value, owned_pct, pct, amount]; `user` is the one the message was  *)
(* sent to (its invoker, buyer or seller): the handlers turn everyone else *)
(* away with a reply and no effect.                                        *)
(***************************************************************************)

\* The percentages each user types into the modals, in tenths: 17.6, 17.7
\* and 64.7.
PctInputs(user_id) ==
    CASE user_id = "u1" -> {176}
      [] user_id = "u2" -> {176, 647}
      [] OTHER -> {177}

\* The businesses each user picks in the Buy menu: u2 and u3 invest in u1's
\* business, u1 in u2's; u1 also picks its own business, and u2 the empty
\* slot of u3.
BuyChoices == {<<"u2", "u1">>, <<"u3", "u1">>, <<"u1", "u2">>,
               <<"u1", "u1">>, <<"u2", "u3">>}

ViewsOf(kind) == {v \in Answerable : v.kind = kind}

Browsing == {v \in views : v.kind \in {"BuyStockConfirmView", "SellStakeConfirmView"}}
Modals == {v \in views : v.kind \in {"BuyStakeModal", "SellStakeModal"}}
Confirms == {v \in views : v.kind \in {"PurchaseConfirmView", "SellConfirmView"}}

\* current_total = 0.0; for r in rec: current_total += float(r['pct'])
RECURSIVE SumPctFrom(_, _)
SumPctFrom(acc, rec) ==
    IF rec = <<>> THEN acc ELSE SumPctFrom(FAdd(acc, Head(rec).pct), Tail(rec))

TotalStaked(rec) == SumPctFrom(F0, rec)

\* my_pct: the same sum over the records of one investor.
OwnedPct(rec, investor_id) ==
    SumPctFrom(F0, SelectSeq(rec, LAMBDA r : r.investor_id = investor_id))

\* int(round(sell_value * (pct / 100.0))) for a typed pct of t tenths.
StakePrice(sell_value, t) == PyRound(sell_value * t, 1000)

\* The availability check left out.
OverAllocatedUnchecked(rec, pct) == FALSE

\* current_total + pct > 100.0
OverAllocated(rec, pct) == FGt(FAdd(TotalStaked(rec), pct), F100)

\* int(buyer['balance']) < cost, int(owner['balance']) < payout
CannotPay(user, amount) == user.balance < amount

\* my_pct < self.pct - 1e-6 or target_idx is None
NotOwned(rec, seller_id, pct) ==
    \/ OwnedPct(rec, seller_id).t < pct.t
    \/ \A k \in DOMAIN rec : rec[k].investor_id # seller_id

\* The purchase left unrecorded.
MergeStakeLost(arr, buyer_id, pct, cost) == arr

\* Every purchase entered as an entry of its own.
MergeStakeAppends(arr, buyer_id, pct, cost) ==
    Append(arr, [investor_id |-> buyer_id, pct |-> pct, paid |-> cost])

\* The equity list after a purchase: the buyer's first entry grows, or a new
\* entry is appended.
MergeStake(arr, buyer_id, pct, cost) ==
    IF \E k \in DOMAIN arr : arr[k].investor_id = buyer_id
    THEN LET k == CHOOSE i \in DOMAIN arr :
                      /\ arr[i].investor_id = buyer_id
                      /\ \A j \in 1..(i - 1) : arr[j].investor_id # buyer_id
         IN  [arr EXCEPT ![k] = [investor_id |-> buyer_id,
                                 pct |-> FAdd(arr[k].pct, pct),
                                 paid |-> arr[k].paid + cost]]
    ELSE Append(arr, [investor_id |-> buyer_id, pct |-> pct, paid |-> cost])

\* The sale applied with the seller's entry kept whatever is left of it.
ReduceStakeKeepsEntry(rec, seller_id, pct) ==
    LET target_idx == CHOOSE i \in DOMAIN rec :
                          /\ rec[i].investor_id = seller_id
                          /\ \A j \in (i + 1)..Len(rec) : rec[j].investor_id # seller_id
    IN  [rec EXCEPT ![target_idx].pct = FSub(rec[target_idx].pct, pct)]

\* The equity list after a sale: the seller's last entry shrinks, or is
\* removed when no more than 1e-6 is left.
ReduceStake(rec, seller_id, pct) ==
    LET target_idx == CHOOSE i \in DOMAIN rec :
                          /\ rec[i].investor_id = seller_id
                          /\ \A j \in (i + 1)..Len(rec) : rec[j].investor_id # seller_id
        new_pct == FSub(rec[target_idx].pct, pct)
    IN  IF ~FGtEps(new_pct)
        THEN SubSeq(rec, 1, target_idx - 1) \o SubSeq(rec, target_idx + 1, Len(rec))
        ELSE [rec EXCEPT ![target_idx].pct = new_pct]

EquityFrame == UNCHANGED <<now, purchases, market, battles, ONGOING_BATTLES,
                           handlers, minigames, ACTIVE_MINIGAMES>>

NewView(kind, user_id, owner_id, slot_index, sell_value, owned_pct) ==
    [n |-> 0, kind |-> kind, user |-> user_id, owner_id |-> owner_id,
     slot_index |-> slot_index, sell_value |-> sell_value,
     owned_pct |-> owned_pct, pct |-> F0, amount |-> 0]

\* stocks.BuyStockSelect.callback
BuyStockSelect_callback ==
    \E choice \in BuyChoices, slot_index \in SlotIdx :
        LET user_id == choice[1]
            owner_id == choice[2]
            owner == users[owner_id]
        IN  /\ Cardinality(Browsing) < MaxBrowsing
            /\ IF slot_index \notin DOMAIN owner.slots \/ owner.slots[slot_index] = None
               THEN /\ views' = views
                    /\ last' = Did("BuyStockSelect.callback", "business_not_found")
               ELSE IF owner_id = user_id
               THEN /\ views' = views
                    /\ last' = Did("BuyStockSelect.callback", "own_business")
               ELSE /\ views' = Open(views,
                          NewView("BuyStockConfirmView", user_id, owner_id, slot_index,
                                  _sell_value_for_slot(owner.slots[slot_index], now), F0))
                    /\ last' = Did("BuyStockSelect.callback", "buy_stock")
            /\ UNCHANGED <<users, stocks, equity, trades>>
            /\ EquityFrame

\* The Back buttons: _tick_if_needed(), then the main stocks view again.
Back(kind, op) ==
    \E v \in ViewsOf(kind), ds \in [1..StepsDue(stocks, now) -> TickDeltas] :
        /\ stocks' = _tick_if_needed(stocks, now, ds)
        /\ views' = views \ {v}
        /\ last' = [Did(op, "stocks_embed") EXCEPT !.steps = Len(ds)]
        /\ UNCHANGED <<users, equity, trades>>
        /\ EquityFrame

\* stocks.BuyStockConfirmView._back
BuyStockConfirmView_back == Back("BuyStockConfirmView", "BuyStockConfirmView._back")

\* The buttons that open a modal.
OpenModal(kind, modal, op) ==
    \E v \in ViewsOf(kind) :
        /\ Cardinality(Modals) < MaxBrowsing
        /\ views' = Open(views, [v EXCEPT !.kind = modal])
        /\ last' = Did(op, "modal")
        /\ UNCHANGED <<users, stocks, equity, trades>>
        /\ EquityFrame

\* stocks.BuyStockConfirmView._buy
BuyStockConfirmView_buy ==
    OpenModal("BuyStockConfirmView", "BuyStakeModal", "BuyStockConfirmView._buy")

\* stocks.BuyStakeModal.on_submit
BuyStakeModal_on_submit ==
    \E v \in ViewsOf("BuyStakeModal") : \E t \in PctInputs(v.user) :
        LET pct == ParsePct(t)
            rec == equity[v.owner_id][v.slot_index]
            cost == StakePrice(v.sell_value, t)
            reject(reply) ==
                /\ views' = views \ {v}
                /\ last' = Did("BuyStakeModal.on_submit", reply)
        IN  /\ Cardinality(Confirms) < MaxConfirms
            /\ IF t <= 0 \/ t > 1000 THEN reject("bad_percentage")
               ELSE IF OverAllocated(rec, pct) THEN reject("not_enough_ownership")
               ELSE IF CannotPay(users[v.user], cost) THEN reject("not_enough_funds")
               ELSE /\ views' = Open(views \ {v},
                          [v EXCEPT !.kind = "PurchaseConfirmView",
                                    !.pct = pct, !.amount = cost])
                    /\ last' = Did("BuyStakeModal.on_submit", "confirm_purchase")
            /\ UNCHANGED <<users, stocks, equity, trades>>
            /\ EquityFrame

\* A payment that is taken from the payer and reaches nobody.
TransferDebitOnly(us, payer, payee, amount) == [us EXCEPT ![payer].balance = @ - amount]

\* payer['balance'] = payer['balance'] - amount and
\* payee['balance'] = payee['balance'] + amount, on one users document.
Transfer(us, payer, payee, amount) ==
    [us EXCEPT ![payer].balance = @ - amount, ![payee].balance = @ + amount]

\* stocks.PurchaseConfirmView._confirm
PurchaseConfirmView_confirm ==
    \E v \in ViewsOf("PurchaseConfirmView") :
        LET rec == equity[v.owner_id][v.slot_index]
            reject(reply) ==
                /\ last' = Did("PurchaseConfirmView._confirm", reply)
                /\ UNCHANGED <<users, equity, trades>>
        IN  /\ trades < MaxTrades
            /\ views' = views \ {v}
            /\ IF OverAllocated(rec, v.pct) THEN reject("no_ownership_left")
               ELSE IF CannotPay(users[v.user], v.amount) THEN reject("not_enough_funds")
               ELSE /\ users' = Transfer(users, v.user, v.owner_id, v.amount)
                    /\ equity' = [equity EXCEPT ![v.owner_id][v.slot_index] =
                                      MergeStake(rec, v.user, v.pct, v.amount)]
                    /\ trades' = trades + 1
                    /\ last' = Did("PurchaseConfirmView._confirm", "purchased")
            /\ UNCHANGED stocks
            /\ EquityFrame

\* The Cancel buttons.
Cancel(kind, op) ==
    \E v \in ViewsOf(kind) :
        /\ views' = views \ {v}
        /\ last' = Did(op, "cancelled")
        /\ UNCHANGED <<users, stocks, equity, trades>>
        /\ EquityFrame

\* stocks.PurchaseConfirmView._cancel
PurchaseConfirmView_cancel == Cancel("PurchaseConfirmView", "PurchaseConfirmView._cancel")

\* stocks.SellStakeSelect.callback
SellStakeSelect_callback ==
    \E user_id \in Users, owner_id \in Users, slot_index \in SlotIdx :
        LET owner == users[owner_id]
            my_pct == OwnedPct(equity[owner_id][slot_index], user_id)
        IN  /\ Cardinality(Browsing) < MaxBrowsing
            /\ IF slot_index \notin DOMAIN owner.slots \/ owner.slots[slot_index] = None
               THEN /\ views' = views
                    /\ last' = Did("SellStakeSelect.callback", "business_not_found")
               ELSE IF ~FGt(my_pct, F0)
               THEN /\ views' = views
                    /\ last' = Did("SellStakeSelect.callback", "no_stake")
               ELSE /\ views' = Open(views,
                          NewView("SellStakeConfirmView", user_id, owner_id, slot_index,
                                  _sell_value_for_slot(owner.slots[slot_index], now), my_pct))
                    /\ last' = Did("SellStakeSelect.callback", "sell_stake")
            /\ UNCHANGED <<users, stocks, equity, trades>>
            /\ EquityFrame

\* stocks.SellStakeConfirmView._back
SellStakeConfirmView_back == Back("SellStakeConfirmView", "SellStakeConfirmView._back")

\* stocks.SellStakeConfirmView._sell
SellStakeConfirmView_sell ==
    OpenModal("SellStakeConfirmView", "SellStakeModal", "SellStakeConfirmView._sell")

\* stocks.SellStakeModal.on_submit: the seller types one of the usual
\* percentages, or the whole holding as it is displayed.
SellStakeModal_on_submit ==
    \E v \in ViewsOf("SellStakeModal") : \E t \in PctInputs(v.user) \cup {v.owned_pct.t} :
        LET pct == ParsePct(t)
            payout == StakePrice(v.sell_value, t)
            reject(reply) ==
                /\ views' = views \ {v}
                /\ last' = Did("SellStakeModal.on_submit", reply)
        IN  /\ Cardinality(Confirms) < MaxConfirms
            /\ IF t <= 0 \/ t > 1000 THEN reject("bad_percentage")
               ELSE IF t > v.owned_pct.t THEN reject("more_than_owned")
               ELSE IF CannotPay(users[v.owner_id], payout) THEN reject("owner_not_enough_funds")
               ELSE /\ views' = Open(views \ {v},
                          [v EXCEPT !.kind = "SellConfirmView",
                                    !.pct = pct, !.amount = payout])
                    /\ last' = Did("SellStakeModal.on_submit", "confirm_sale")
            /\ UNCHANGED <<users, stocks, equity, trades>>
            /\ EquityFrame

\* stocks.SellConfirmView._confirm
SellConfirmView_confirm ==
    \E v \in ViewsOf("SellConfirmView") :
        LET rec == equity[v.owner_id][v.slot_index]
            reject(reply) ==
                /\ last' = Did("SellConfirmView._confirm", reply)
                /\ UNCHANGED <<users, equity, trades>>
        IN  /\ trades < MaxTrades
            /\ views' = views \ {v}
            /\ IF NotOwned(rec, v.user, v.pct) THEN reject("no_longer_owned")
               ELSE IF CannotPay(users[v.owner_id], v.amount) THEN reject("owner_not_enough_funds")
               ELSE /\ users' = Transfer(users, v.owner_id, v.user, v.amount)
                    /\ equity' = [equity EXCEPT ![v.owner_id][v.slot_index] =
                                      ReduceStake(rec, v.user, v.pct)]
                    /\ trades' = trades + 1
                    /\ last' = Did("SellConfirmView._confirm", "sold")
            /\ UNCHANGED stocks
            /\ EquityFrame

\* stocks.SellConfirmView._cancel
SellConfirmView_cancel == Cancel("SellConfirmView", "SellConfirmView._cancel")

\* discord.ui.View(timeout=...): a view that is not answered in time stops
\* listening; a modal can be dismissed.
ViewTimeout ==
    \E v \in Answerable :
        /\ views' = views \ {v}
        /\ last' = Did("on_timeout", "")
        /\ UNCHANGED <<users, stocks, equity, trades>>
        /\ EquityFrame

-----------------------------------------------------------------------------
(* The stock ticker, the income functions and the upgrade market together *)

\* u3 has earned minigame rewards; the others hold the starting balance.
BalancesStocks == [uid \in Users |-> IF uid = "u3" THEN 700 ELSE 100]

InitStocksSpec == InitStore(BalancesStocks, Users)

NextStocks ==
    \/ Advance
    \/ StocksTask
    \/ StocksCommand
    \/ StocksViewRefresh
    \/ CreateUpgradeModal_on_submit
    \/ finalize_create
    \/ UpgradeSelect_callback
    \/ apply_to_slot

SpecStocks == InitStocksSpec /\ [][NextStocks]_vars

\* The slots that hold a business.
Businesses == {b \in Users \X SlotIdx :
                  /\ b[2] \in DOMAIN users[b[1]].slots
                  /\ users[b[1]].slots[b[2]] # None}

SlotOf(b) == users[b[1]].slots[b[2]]

\* C4: immediately after any stock tick, applied by the background ticker or
\* by a user-facing stock action, every stored business has
\* income_per_day = round(base_income_per_day * current_pct / 50.0).
C4_IncomeFollowsStockAfterTick ==
    last.steps > 0 =>
        \A b \in Businesses :
            SlotOf(b).income_per_day =
                PyRound(SlotOf(b).base_income_per_day * stocks.current_pct, 500)

\* A tick has just been applied and some business is off the stated value.
C4_TickLeftIncomeOff ==
    /\ last.steps > 0
    /\ \E b \in Businesses :
           SlotOf(b).income_per_day #
               PyRound(SlotOf(b).base_income_per_day * stocks.current_pct, 500)

\* The effective income as stated: from the creation-time baseline.
StatedEffectiveIncome(b) ==
    Max(0, PyRound(SlotOf(b).base_income_per_day * SlotOf(b).rating
                       * (1000 + SumBoost(purchases[b[1]][b[2]])),
                   100 * 1000))

\* C5: effective income is max(0, round(base_income_per_day * rating *
\* (1 + total_boost_pct/100))) in every component, and display income is
\* round(effective * current_pct / 50.0): the stock factor enters once.
C5_EffectiveIncomeFromBaseline ==
    \A b \in Businesses :
        /\ _effective_income_per_day(SlotOf(b), b[1], b[2]) = StatedEffectiveIncome(b)
        /\ _effective_income_calc(SlotOf(b), b[1], b[2]) = StatedEffectiveIncome(b)
        /\ _display_income(SlotOf(b), b[1], b[2]) =
               PyRound(StatedEffectiveIncome(b) * stocks.current_pct, 500)

\* A business whose displayed income carries the stock factor twice.
C5_StockFactorTwice ==
    \E b \in Businesses :
        /\ SlotOf(b).income_per_day # SlotOf(b).base_income_per_day
        /\ _display_income(SlotOf(b), b[1], b[2]) #
               PyRound(StatedEffectiveIncome(b) * stocks.current_pct, 500)

\* C6: for the same stored business at the same instant, the sell value
\* quoted for stake trades equals the sell value paid when the owner sells
\* the business (effective income * 0.5 + accrued, boosts and pending_collect
\* included).
C6_SellValuesAgree ==
    \A b \in Businesses :
        _sell_value_for_slot(SlotOf(b), now) = _sell_value(SlotOf(b), b[1], b[2], now)

\* A business with a purchased boost or pending sale credits, valued
\* differently by the two components.
C6_SellValuesDiffer ==
    \E b \in Businesses :
        /\ \/ purchases[b[1]][b[2]] # <<>>
           \/ SlotOf(b).pending_collect > 0
        /\ _sell_value_for_slot(SlotOf(b), now) # _sell_value(SlotOf(b), b[1], b[2], now)

-----------------------------------------------------------------------------
(* The equity stake flows *)

\* The users have lost most of their balance to minigame penalties, u1 all
\* of it; u3 has not created a business yet.
BalancesEquity == [uid \in Users |-> CASE uid = "u1" -> 0 [] uid = "u2" -> 13 [] OTHER -> 6]

InitEquity == InitStore(BalancesEquity, {"u1", "u2"})

NextEquity ==
    \/ BuyStockSelect_callback
    \/ BuyStockConfirmView_back
    \/ BuyStockConfirmView_buy
    \/ BuyStakeModal_on_submit
    \/ PurchaseConfirmView_confirm
    \/ PurchaseConfirmView_cancel
    \/ SellStakeSelect_callback
    \/ SellStakeConfirmView_back
    \/ SellStakeConfirmView_sell
    \/ SellStakeModal_on_submit
    \/ SellConfirmView_confirm
    \/ SellConfirmView_cancel
    \/ ViewTimeout

SpecEquity == InitEquity /\ [][NextEquity]_vars

Balances == [uid \in Users |-> users[uid].balance]

RECURSIVE SumTenths(_)
SumTenths(rec) == IF rec = <<>> THEN 0 ELSE Head(rec).pct.t + SumTenths(Tail(rec))

RECURSIVE SumPaid(_)
SumPaid(rec) == IF rec = <<>> THEN 0 ELSE Head(rec).paid + SumPaid(Tail(rec))

EntriesOf(rec, investor_id) == SelectSeq(rec, LAMBDA r : r.investor_id = investor_id)
EntriesOfOthers(rec, investor_id) == SelectSeq(rec, LAMBDA r : r.investor_id # investor_id)

\* C1: for every business the sum of pct over the entries of its equity
\* record is at most 100 in every reachable state, also when the flows of
\* two investors are interleaved (the sum as Python adds the stored floats).
C1_StakesSumAtMost100 ==
    \A owner_id \in Users, slot_index \in SlotIdx :
        ~FGt(TotalStaked(equity[owner_id][slot_index]), F100)

\* The percentages as decimals (rounding errors of the floats left aside)
\* never sum to more than 100.
StakesSumAtMost100Decimal ==
    \A owner_id \in Users, slot_index \in SlotIdx :
        SumTenths(equity[owner_id][slot_index]) <= 1000

\* A record of two investors whose stored floats sum to more than 100 while
\* the decimals that were bought sum to exactly 100.
C1_RoundedOver100 ==
    \E owner_id \in Users, slot_index \in SlotIdx :
        /\ Len(equity[owner_id][slot_index]) = 2
        /\ SumTenths(equity[owner_id][slot_index]) = 1000
        /\ FGt(TotalStaked(equity[owner_id][slot_index]), F100)

\* The step is the complete purchase that the confirmation v stands for.
StakeBought(v) ==
    LET old == equity[v.owner_id][v.slot_index]
        new == equity'[v.owner_id][v.slot_index]
    IN  /\ v.kind = "PurchaseConfirmView"
        /\ Balances' = [Balances EXCEPT ![v.user] = @ - v.amount,
                                        ![v.owner_id] = @ + v.amount]
        /\ equity' = [equity EXCEPT ![v.owner_id][v.slot_index] = new]
        /\ EntriesOfOthers(new, v.user) = EntriesOfOthers(old, v.user)
        /\ Len(EntriesOf(new, v.user)) = 1
        /\ SumTenths(EntriesOf(new, v.user)) = SumTenths(EntriesOf(old, v.user)) + v.pct.t
        /\ SumPaid(EntriesOf(new, v.user)) = SumPaid(EntriesOf(old, v.user)) + v.amount

\* The step is the complete sale that the confirmation v stands for.
StakeSold(v) ==
    LET old == equity[v.owner_id][v.slot_index]
        new == equity'[v.owner_id][v.slot_index]
    IN  /\ v.kind = "SellConfirmView"
        /\ Balances' = [Balances EXCEPT ![v.owner_id] = @ - v.amount,
                                        ![v.user] = @ + v.amount]
        /\ equity' = [equity EXCEPT ![v.owner_id][v.slot_index] = new]
        /\ EntriesOfOthers(new, v.user) = EntriesOfOthers(old, v.user)
        /\ SumTenths(EntriesOf(new, v.user)) = SumTenths(EntriesOf(old, v.user)) - v.pct.t

BuyRejections == {"own_business", "business_not_found", "bad_percentage",
                  "not_enough_ownership", "not_enough_funds", "no_ownership_left"}

\* C2: a stake purchase is all-or-nothing.  Every step that moves a balance
\* or changes an equity record is one complete transaction (the buyer
\* debited and the owner credited by the cost, the buyer's entry upserted
\* with the percentage and the amount paid), and a rejected purchase changes
\* neither a balance nor an equity record.
C2_PurchaseAllOrNothing ==
    [][/\ (Balances' # Balances \/ equity' # equity) =>
              \E v \in views \ views' : StakeBought(v) \/ StakeSold(v)
       /\ last'.reply \in BuyRejections =>
              (Balances' = Balances /\ equity' = equity)]_vars

\* A purchase has just been applied: the buyer holds the stake and the
\* owner the money.
C2_PurchaseApplied ==
    /\ last = Did("PurchaseConfirmView._confirm", "purchased")
    /\ \E owner_id \in Users, slot_index \in SlotIdx :
           /\ equity[owner_id][slot_index] # <<>>
           /\ users[owner_id].balance > BalancesEquity[owner_id]

\* The preconditions of the purchase v against the documents as they are.
CanBuyNow(v) ==
    /\ v.kind = "PurchaseConfirmView"
    /\ SumTenths(equity[v.owner_id][v.slot_index]) + v.pct.t <= 1000
    /\ users[v.user].balance >= v.amount

\* The preconditions of the sale v against the documents as they are.
CanSellNow(v) ==
    /\ v.kind = "SellConfirmView"
    /\ SumTenths(EntriesOf(equity[v.owner_id][v.slot_index], v.user)) >= v.pct.t
    /\ users[v.owner_id].balance >= v.amount

\* C3: the confirm step of a purchase or sale applies the transaction only
\* if its preconditions (availability and the investor's funds; the seller's
\* holding and the owner's funds) hold against the documents as they are at
\* that moment; a confirmation whose quote has become stale is rejected
\* and changes nothing.
C3_ConfirmRevalidates ==
    [][\A v \in views \ views' :
           /\ v.kind \in {"PurchaseConfirmView", "SellConfirmView"}
           /\ last'.op \in {"PurchaseConfirmView._confirm", "SellConfirmView._confirm"}
           => /\ (Balances' # Balances \/ equity' # equity) => (CanBuyNow(v) \/ CanSellNow(v))
              /\ ~(CanBuyNow(v) \/ CanSellNow(v)) =>
                     /\ Balances' = Balances /\ equity' = equity
                     /\ last'.reply \in {"no_ownership_left", "not_enough_funds",
                                         "no_longer_owned", "owner_not_enough_funds"}]_vars

\* A confirmation has just been rejected because another purchase took the
\* ownership that was available when it was quoted.
C3_StaleQuoteRejected ==
    /\ last = Did("PurchaseConfirmView._confirm", "no_ownership_left")
    /\ \E owner_id \in Users, slot_index \in SlotIdx :
           equity[owner_id][slot_index] # <<>>

-----------------------------------------------------------------------------
(* Ratings are Python floats too.  A rating is a decimal with two digits;  *)
(* the float that holds it is h/100 + e * 2^-60 / 25 for the integer h of   *)
(* hundredths and the rounding error e, found like the error of a          *)
(* percentage: h/100 is 2^58 * h units, and a float in [2^k, 2^(k+1)) is a  *)
(* multiple of 25 * 2^(k+8) units.  round(x, 2) and round(x, 1) return the  *)
(* float nearest to the decimal, so every rating the program computes is   *)
(* the float nearest to its hundredths.                                    *)
(***************************************************************************)

\* 25 * 2^13 units: twice the spacing of the floats in [16, 32).
R64_MOD == 25 * 2^13
\* 2^58 modulo R64_MOD: 2^13 * (2^45 mod 25).
R64_HUNDREDTH == 7 * 2^13

\* The spacing, in units, of the floats around h/100 (h > 0): the largest
\* 6400 * 2^k that is at most 64 * h.
RECURSIVE RatingUlp(_, _)
RatingUlp(h, lo) ==
    IF lo <= 25 \/ 64 * h >= lo THEN lo ELSE RatingUlp(h, lo \div 2)

\* The rounding error of the float nearest to h/100.
F64Err(h) ==
    IF h = 0 THEN 0
    ELSE LET L == RatingUlp(h, R64_MOD \div 2)
             p == (h * R64_HUNDREDTH) % R64_MOD
             r == p % L
         IN  IF r = 0 THEN 0
             ELSE IF 2 * r < L THEN 0 - r
             ELSE IF 2 * r > L THEN L - r
             ELSE IF ((p - r) \div L) % 2 = 0 THEN 0 - r ELSE L - r

RATING_FLOOR == 10
LOSE_MARGIN == 50
BASE_DELTA == 10

\* rating <= start - 0.5 on floats, for a rating of at least 0.1.  0.5 is a
\* float and start - 0.5 is computed exactly when start >= 0.5 (it is a
\* multiple of the spacing at start, and smaller); below 0.5 it is negative.
AtOrBelowThreshold(rating, start) ==
    IF start < LOSE_MARGIN THEN FALSE
    ELSE \/ rating < start - LOSE_MARGIN
         \/ rating = start - LOSE_MARGIN /\ F64Err(rating) <= F64Err(start)

-----------------------------------------------------------------------------
(* Business battles, commands/compete.py.                                  *)
(*                                                                         *)
(* battles[n] is the BattleView of the n-th challenge; its message is n.   *)
(* `handlers` holds what is suspended at an await or waits for its user:   *)
(* a /compete handler that has sent the message and not yet registered it, *)
(* an argument modal that is open, a judge that waits for the model.       *)
(* A button is pressed only while the message shows it enabled.            *)
(***************************************************************************)

MaxRounds == 20
MaxBattles == 2

BattleView(a_id, b_id, a_data, b_data) ==
    [a_id |-> a_id, b_id |-> b_id, a_data |-> a_data, b_data |-> b_data,
     a_choice |-> 0, b_choice |-> 0,
     a_argument |-> FALSE, b_argument |-> FALSE,
     judging |-> FALSE, battle_over |-> FALSE,
     a_rating |-> 100, b_rating |-> 100,
     a_start_rating |-> 0, b_start_rating |-> 0,
     message |-> 0, started |-> FALSE, round |-> 1,
     finished |-> FALSE]

Sessions == DOMAIN battles
Players(battle) == {battle.a_id, battle.b_id}

\* A multiplier that counts the rounds from zero.
MultiplierFromRoundZero(battle) == 2 ^ (Max(1, battle.round) \div 5)

\* BattleView.current_multiplier: doubles every five rounds.
current_multiplier(battle) == 2 ^ ((Max(1, battle.round) - 1) \div 5)

\* BattleView.current_delta: round(0.1 * multiplier, 2).
current_delta(battle) == BASE_DELTA * current_multiplier(battle)

\* BattleView.update_controls: the buttons that are enabled.
both_selected(battle) == battle.a_choice # 0 /\ battle.b_choice # 0
start_enabled(battle) ==
    both_selected(battle) /\ ~battle.started /\ ~battle.battle_over /\ ~battle.judging
submit_enabled(battle) ==
    battle.started /\ both_selected(battle) /\ ~battle.battle_over /\ ~battle.judging
\* A forfeit button that is disabled during the judging, as Submit is.
ForfeitDisabledWhileJudging(battle) ==
    battle.started /\ both_selected(battle) /\ ~battle.battle_over /\ ~battle.judging

forfeit_enabled(battle) ==
    battle.started /\ both_selected(battle) /\ ~battle.battle_over

\* max(0.1, float(slot.get('rating', 1.0) or 1.0)): a stored 0 counts as 1.0.
SelectedRating(slot) ==
    Max(RATING_FLOOR, IF slot.rating = 0 THEN 100 ELSE slot.rating)

\* _apply_battle_outcome as it would be if it also stored the income that
\* the new rating gives.
IncomeRescaled(slot, rating) ==
    [slot EXCEPT !.income_per_day =
                     PyRound(slot.base_income_per_day * Max(RATING_FLOOR, rating), 100)]

ApplyBattleOutcomeWithIncome(us, a_id, b_id, a_choice, b_choice, a_rating, b_rating, winner_char) ==
    IF us[a_id].slots[a_choice] = None \/ us[b_id].slots[b_choice] = None THEN us
    ELSE [us EXCEPT
            ![a_id].slots[a_choice] =
                [IncomeRescaled(@, a_rating) EXCEPT
                          !.wins = @ + (IF winner_char = "A" THEN 1 ELSE 0),
                          !.losses = @ + (IF winner_char = "B" THEN 1 ELSE 0),
                          !.rating = Max(RATING_FLOOR, a_rating)],
            ![b_id].slots[b_choice] =
                [IncomeRescaled(@, b_rating) EXCEPT
                          !.wins = @ + (IF winner_char = "B" THEN 1 ELSE 0),
                          !.losses = @ + (IF winner_char = "A" THEN 1 ELSE 0),
                          !.rating = Max(RATING_FLOOR, b_rating)]]

\* compete._apply_battle_outcome: the users document after the ratings and
\* the win and the loss are persisted; unchanged if a slot is empty.
_apply_battle_outcome(us, a_id, b_id, a_choice, b_choice, a_rating, b_rating, winner_char) ==
    IF us[a_id].slots[a_choice] = None \/ us[b_id].slots[b_choice] = None THEN us
    ELSE [us EXCEPT
            ![a_id].slots[a_choice] =
                [@ EXCEPT !.wins = @ + (IF winner_char = "A" THEN 1 ELSE 0),
                          !.losses = @ + (IF winner_char = "B" THEN 1 ELSE 0),
                          !.rating = Max(RATING_FLOOR, a_rating)],
            ![b_id].slots[b_choice] =
                [@ EXCEPT !.wins = @ + (IF winner_char = "B" THEN 1 ELSE 0),
                          !.losses = @ + (IF winner_char = "A" THEN 1 ELSE 0),
                          !.rating = Max(RATING_FLOOR, b_rating)]]

\* self.a_choice or 0: the slot index that is persisted.
ChoiceOrFirst(choice) == IF choice = 0 THEN 1 ELSE choice

\* A finalization that leaves the players registered.
FinalizeKeepsRegistry(n, battle, winner_char) ==
    /\ battles' = [battles EXCEPT ![n] = [battle EXCEPT !.battle_over = TRUE]]
    /\ users' = _apply_battle_outcome(users, battle.a_id, battle.b_id,
                                      ChoiceOrFirst(battle.a_choice),
                                      ChoiceOrFirst(battle.b_choice),
                                      battle.a_rating, battle.b_rating, winner_char)
    /\ UNCHANGED ONGOING_BATTLES

\* BattleView._finalize_battle on the view `battle` of session n.
_finalize_battle(n, battle, winner_char) ==
    /\ battles' = [battles EXCEPT ![n] = [battle EXCEPT !.battle_over = TRUE]]
    /\ users' = _apply_battle_outcome(users, battle.a_id, battle.b_id,
                                      ChoiceOrFirst(battle.a_choice),
                                      ChoiceOrFirst(battle.b_choice),
                                      battle.a_rating, battle.b_rating, winner_char)
    /\ ONGOING_BATTLES' = [uid \in Users |->
                              IF uid \in Players(battle) THEN 0 ELSE ONGOING_BATTLES[uid]]

BattleFrame == UNCHANGED <<now, stocks, equity, trades, purchases, market, views,
                           minigames, ACTIVE_MINIGAMES>>

\* PlayerSelect.callback: a player picks one of the businesses listed when
\* the challenge was made; the select is disabled afterwards.
PlayerSelect_callback ==
    \E n \in Sessions : \E uid \in Players(battles[n]) :
        LET battle == battles[n]
            is_a == uid = battle.a_id
            data == IF is_a THEN battle.a_data ELSE battle.b_data
        IN  /\ ~battle.finished /\ ~battle.started
            /\ (IF is_a THEN battle.a_choice ELSE battle.b_choice) = 0
            /\ \E idx \in DOMAIN data.slots :
                   /\ data.slots[idx] # None
                   /\ battles' = [battles EXCEPT ![n] =
                          IF is_a
                          THEN [battle EXCEPT !.a_choice = idx,
                                              !.a_rating = SelectedRating(data.slots[idx])]
                          ELSE [battle EXCEPT !.b_choice = idx,
                                              !.b_rating = SelectedRating(data.slots[idx])]]
            /\ last' = Did("PlayerSelect.callback", "selected")
            /\ UNCHANGED <<users, ONGOING_BATTLES, handlers>>
            /\ BattleFrame

\* BattleView._start_pressed: the starting ratings are recorded.
BattleView_start_pressed ==
    \E n \in Sessions :
        LET battle == battles[n]
        IN  /\ ~battle.finished /\ start_enabled(battle)
            /\ battles' = [battles EXCEPT ![n] =
                   [battle EXCEPT !.started = TRUE,
                                  !.a_start_rating = Max(RATING_FLOOR, battle.a_rating),
                                  !.b_start_rating = Max(RATING_FLOOR, battle.b_rating)]]
            /\ last' = Did("BattleView._start_pressed", "started")
            /\ UNCHANGED <<users, ONGOING_BATTLES, handlers>>
            /\ BattleFrame

ArgumentModal(n, owner_id) == [kind |-> "ArgumentModal", session |-> n, owner_id |-> owner_id]
Judge(n) == [kind |-> "judge", session |-> n, owner_id |-> ""]
Compete(n) == [kind |-> "compete", session |-> n, owner_id |-> ""]

\* BattleView._submit_pressed: the player gets an argument modal, unless
\* their argument for this round is in.
BattleView_submit_pressed ==
    \E n \in Sessions : \E uid \in Players(battles[n]) :
        LET battle == battles[n]
            mine == IF uid = battle.a_id THEN battle.a_argument ELSE battle.b_argument
        IN  /\ ~battle.finished /\ submit_enabled(battle)
            /\ battle.round <= MaxRounds
            /\ IF mine
               THEN /\ last' = Did("BattleView._submit_pressed", "already_submitted")
                    /\ UNCHANGED handlers
               ELSE /\ last' = Did("BattleView._submit_pressed", "modal")
                    /\ handlers' = handlers \cup {ArgumentModal(n, uid)}
            /\ UNCHANGED <<users, battles, ONGOING_BATTLES>>
            /\ BattleFrame

\* ArgumentModal.on_submit, up to the first await of BattleView.judge: the
\* argument is stored, and with both arguments in the judging begins unless
\* it is under way or the battle is over.
ArgumentModal_on_submit ==
    \E m \in handlers :
        /\ m.kind = "ArgumentModal"
        /\ LET n == m.session
               battle == battles[n]
               argued == IF m.owner_id = battle.a_id
                         THEN [battle EXCEPT !.a_argument = TRUE]
                         ELSE [battle EXCEPT !.b_argument = TRUE]
               both == argued.a_argument /\ argued.b_argument
           IN  IF battle.battle_over
               THEN /\ last' = Did("ArgumentModal.on_submit", "already_over")
                    /\ handlers' = handlers \ {m}
                    /\ UNCHANGED battles
               ELSE IF both /\ ~argued.judging
               THEN /\ last' = Did("ArgumentModal.on_submit", "judging")
                    /\ handlers' = (handlers \ {m}) \cup {Judge(n)}
                    /\ battles' = [battles EXCEPT ![n] = [argued EXCEPT !.judging = TRUE]]
               ELSE /\ last' = Did("ArgumentModal.on_submit", "received")
                    /\ handlers' = handlers \ {m}
                    /\ battles' = [battles EXCEPT ![n] = argued]
        /\ UNCHANGED <<users, ONGOING_BATTLES>>
        /\ BattleFrame

\* Ratings after a judged round in which only the winner's rating moves.
JudgedRatingsWinnerOnly(battle, aiA, aiB, winner_char) ==
    LET delta == BASE_DELTA * 2 ^ ((Max(1, battle.round) - 1) \div 5)
        gain == IF aiA \/ aiB THEN 2 * delta ELSE delta
    IN  IF aiA /\ aiB
        THEN [a_rating |-> Max(RATING_FLOOR, battle.a_rating - gain),
              b_rating |-> Max(RATING_FLOOR, battle.b_rating - gain)]
        ELSE IF aiA \/ (~aiB /\ winner_char = "B")
        THEN [a_rating |-> battle.a_rating, b_rating |-> battle.b_rating + gain]
        ELSE [a_rating |-> battle.a_rating + gain, b_rating |-> battle.b_rating]

\* The ratings after a judged round: flagged as AI-written, a player loses
\* twice the delta; otherwise the picked winner gains the delta and the
\* other loses it.  No rating goes below the floor.
JudgedRatings(battle, aiA, aiB, winner_char) ==
    LET delta == current_delta(battle)
        double_delta == 2 * delta
        a == battle.a_rating
        b == battle.b_rating
    IN  IF aiA /\ aiB
        THEN [a_rating |-> Max(RATING_FLOOR, a - double_delta),
              b_rating |-> Max(RATING_FLOOR, b - double_delta)]
        ELSE IF aiA
        THEN [a_rating |-> Max(RATING_FLOOR, a - double_delta),
              b_rating |-> Max(RATING_FLOOR, b + double_delta)]
        ELSE IF aiB
        THEN [a_rating |-> Max(RATING_FLOOR, a + double_delta),
              b_rating |-> Max(RATING_FLOOR, b - double_delta)]
        ELSE IF winner_char = "A"
        THEN [a_rating |-> Max(RATING_FLOOR, a + delta),
              b_rating |-> Max(RATING_FLOOR, b - delta)]
        ELSE [a_rating |-> Max(RATING_FLOOR, a - delta),
              b_rating |-> Max(RATING_FLOOR, b + delta)]

\* The result line of a judged round: an AI-detection notice when an
\* argument was flagged, the winner and loser line otherwise.
JudgeResult(aiA, aiB, outcome) ==
    IF aiA \/ aiB THEN "ai_detection" \o ":" \o outcome ELSE outcome

\* What _gemini_generate hands to the judge: the model's answer, or '' when
\* the call failed, timed out or no model is configured.
JudgeTexts == {"", "A", "B"}

\* The numbers of words of an argument.
WordCounts == {2, 3}

\* A judge that gives the round to A whenever the model made no pick.
JudgedWinnerDefaultA(text, lenA, lenB) ==
    IF text = "B" THEN {"B"} ELSE {"A"}

\* The winner of a round without an AI flag: the model's pick; without a
\* pick the argument with more words, and with equally many either player
\* (random.choice).
JudgedWinner(text, lenA, lenB) ==
    IF text = "B" THEN {"B"}
    ELSE IF text = "A" THEN {"A"}
    ELSE IF lenA # lenB THEN {IF lenA > lenB THEN "A" ELSE "B"}
    ELSE {"A", "B"}

\* a_slot = a_user['slots'][self.a_choice] followed by a_slot.get(...): the
\* lookup raises when a chosen slot holds no business any more.
SlotLookupRaises(battle) ==
    \/ users[battle.a_id].slots[battle.a_choice] = None
    \/ users[battle.b_id].slots[battle.b_choice] = None

\* An end condition that looks at B's threshold first.
ThresholdWinnerBFirst(battle) ==
    IF AtOrBelowThreshold(battle.b_rating, battle.b_start_rating) THEN "A"
    ELSE IF AtOrBelowThreshold(battle.a_rating, battle.a_start_rating) THEN "B"
    ELSE ""

\* The end condition of a round: `if self.a_rating <= a_threshold:` B wins,
\* `elif self.b_rating <= b_threshold:` A wins, else nobody yet.
ThresholdWinner(battle) ==
    IF AtOrBelowThreshold(battle.a_rating, battle.a_start_rating) THEN "B"
    ELSE IF AtOrBelowThreshold(battle.b_rating, battle.b_start_rating) THEN "A"
    ELSE ""

\* The rest of BattleView.judge, once the detector and the model have
\* answered or failed: the ratings move, and the battle is finalized for the
\* other player if a rating is at or below its threshold; otherwise the next
\* round begins.  If the lookup of a chosen slot raises, only the finally
\* clause runs: judging is reset and everything else stays as it was.
BattleView_judge ==
    \E j \in handlers : \E aiA, aiB \in BOOLEAN, winner_char \in {"A", "B"},
                           text \in JudgeTexts, lenA, lenB \in WordCounts :
        /\ j.kind = "judge"
        /\ IF aiA \/ aiB
           THEN winner_char = "A" /\ text = ""
           ELSE winner_char \in JudgedWinner(text, lenA, lenB)
        /\ LET n == j.session
               input == IF aiA \/ aiB THEN <<>>
                        ELSE IF text = "" THEN <<text, lenA, lenB>> ELSE <<text>>
               battle == battles[n]
               rated == JudgedRatings(battle, aiA, aiB, winner_char)
               judged == [battle EXCEPT !.a_rating = rated.a_rating,
                                        !.b_rating = rated.b_rating,
                                        !.judging = FALSE]
           IN  IF SlotLookupRaises(battle)
               THEN /\ battles' = [battles EXCEPT ![n] = [battle EXCEPT !.judging = FALSE]]
                    /\ last' = Did("BattleView.judge", "raised")
                    /\ UNCHANGED <<users, ONGOING_BATTLES>>
               ELSE IF ThresholdWinner(judged) = "B"
               THEN /\ _finalize_battle(n, judged, "B")
                    /\ last' = Judged("BattleView.judge", JudgeResult(aiA, aiB, "B_wins"), input)
               ELSE IF ThresholdWinner(judged) = "A"
               THEN /\ _finalize_battle(n, judged, "A")
                    /\ last' = Judged("BattleView.judge", JudgeResult(aiA, aiB, "A_wins"), input)
               ELSE /\ battles' = [battles EXCEPT ![n] =
                           [judged EXCEPT !.a_argument = FALSE,
                                          !.b_argument = FALSE,
                                          !.round = @ + 1]]
                    /\ last' = Judged("BattleView.judge", JudgeResult(aiA, aiB, "next_round"), input)
                    /\ UNCHANGED <<users, ONGOING_BATTLES>>
        /\ handlers' = handlers \ {j}
        /\ BattleFrame

\* BattleView._forfeit_pressed: the opponent wins.
BattleView_forfeit_pressed ==
    \E n \in Sessions : \E uid \in Players(battles[n]) :
        LET battle == battles[n]
        IN  /\ ~battle.finished /\ forfeit_enabled(battle)
            /\ _finalize_battle(n, battle, IF uid = battle.a_id THEN "B" ELSE "A")
            /\ last' = Did("BattleView._forfeit_pressed", "forfeited")
            /\ UNCHANGED handlers
            /\ BattleFrame

\* BattleView.on_timeout: after five idle minutes the view is finished; a
\* battle that is not over ends without a result.
BattleView_on_timeout ==
    \E n \in Sessions :
        LET battle == battles[n]
        IN  /\ ~battle.finished
            /\ battles' = [battles EXCEPT ![n] = [battle EXCEPT !.finished = TRUE,
                                                                !.battle_over = TRUE]]
            /\ ONGOING_BATTLES' =
                   IF battle.battle_over THEN ONGOING_BATTLES
                   ELSE [uid \in Users |->
                            IF uid \in Players(battle) THEN 0 ELSE ONGOING_BATTLES[uid]]
            /\ last' = Did("BattleView.on_timeout", "timed_out")
            /\ UNCHANGED <<users, handlers>>
            /\ BattleFrame

-----------------------------------------------------------------------------
(* SpecBattle: one battle, u1 against u2, from the moment the challenge is *)
(* registered.  u1's business has lost rating before (0.5 is what a lost   *)
(* battle leaves of 1.0; 0.7 is left after three failed pitches).          *)
(***************************************************************************)

\* The users document with the rating of every business set.
Rated(us, ratings) ==
    [uid \in Users |->
        [us[uid] EXCEPT !.slots =
            [i \in DOMAIN us[uid].slots |->
                IF us[uid].slots[i] = None THEN None
                ELSE [us[uid].slots[i] EXCEPT !.rating = ratings[uid]]]]]

RatingsHeld == {50, 70, 100}

InitBattle ==
    /\ now = Epoch0
    /\ \E r \in RatingsHeld :
           users = Rated(UsersWith(BalancesStocks, Users),
                         [uid \in Users |-> IF uid = "u1" THEN r ELSE 100])
    /\ stocks = InitStocks
    /\ equity = [uid \in Users |-> [i \in SlotIdx |-> <<>>]]
    /\ trades = 0
    /\ purchases = [uid \in Users |-> [i \in SlotIdx |-> <<>>]]
    /\ market = [upgrades |-> <<>>, last_id |-> 0]
    /\ views = {}
    /\ battles = <<[BattleView("u1", "u2", users["u1"], users["u2"]) EXCEPT !.message = 1]>>
    /\ ONGOING_BATTLES = [uid \in Users |-> IF uid \in {"u1", "u2"} THEN 1 ELSE 0]
    /\ handlers = {}
    /\ minigames = <<>>
    /\ ACTIVE_MINIGAMES = [uid \in Users |-> 0]
    /\ last = Quiet

NextBattle ==
    \/ PlayerSelect_callback
    \/ BattleView_start_pressed
    \/ BattleView_submit_pressed
    \/ ArgumentModal_on_submit
    \/ BattleView_judge
    \/ BattleView_forfeit_pressed
    \/ BattleView_on_timeout

SpecBattle == InitBattle /\ [][NextBattle]_vars

\* C8: from any started battle, whatever the judge decides round after
\* round and whatever ratings the two businesses start with, the battle is
\* finalized within a bounded number of rounds (MaxRounds: from round 20 on
\* one round moves a rating by more than the whole margin), with no forfeit
\* and no timeout.
C8_FinalizedWithinMaxRounds ==
    \A n \in Sessions :
        (battles[n].started /\ ~battles[n].battle_over) => battles[n].round <= MaxRounds

\* A battle in its last round but one in which a player sits on the floor
\* and cannot reach the threshold.
C8_LoserOnTheFloor ==
    \E n \in Sessions :
        /\ battles[n].started /\ ~battles[n].battle_over
        /\ battles[n].round = MaxRounds
        /\ battles[n].a_rating = RATING_FLOOR
        /\ battles[n].a_start_rating - LOSE_MARGIN < RATING_FLOOR

WinsOf(us, uid, choice) == us[uid].slots[choice].wins

\* C9: after each judged round of a battle that was running, the battle is
\* finalized exactly when a player's rating is at or below that player's
\* starting rating minus 0.5, and then the other player is recorded as the
\* winner; otherwise both arguments are cleared and the round counter goes
\* up by one.
C9_JudgedRoundOutcome ==
    [][\A j \in handlers \ handlers' :
           (j.kind = "judge" /\ ~battles[j.session].battle_over) =>
               LET old == battles[j.session]
                   new == battles'[j.session]
                   a_lost == new.a_rating <= new.a_start_rating - LOSE_MARGIN
                   b_lost == new.b_rating <= new.b_start_rating - LOSE_MARGIN
               IN  IF a_lost \/ b_lost
                   THEN /\ new.battle_over
                        /\ \/ a_lost /\ WinsOf(users', old.b_id, old.b_choice)
                                          = WinsOf(users, old.b_id, old.b_choice) + 1
                           \/ b_lost /\ WinsOf(users', old.a_id, old.a_choice)
                                          = WinsOf(users, old.a_id, old.a_choice) + 1
                   ELSE /\ ~new.battle_over
                        /\ ~new.a_argument /\ ~new.b_argument
                        /\ new.round = old.round + 1]_vars

\* A judged round has left a player exactly on the threshold and the battle
\* goes on.
C9_OnThresholdNotFinalized ==
    \E n \in Sessions :
        /\ battles[n].started /\ ~battles[n].battle_over /\ ~battles[n].judging
        /\ battles[n].round > 1
        /\ battles[n].a_rating = battles[n].a_start_rating - LOSE_MARGIN

\* No rating that a battle persists is below the floor.
BattleKeepsRatingFloor ==
    \A uid \in {"u1", "u2"}, i \in SlotIdx :
        users[uid].slots[i] # None =>
            users[uid].slots[i].rating >= RATING_FLOOR

-----------------------------------------------------------------------------
(* SpecCompete: challenges among three owners, and what ends a battle      *)
(* without a judged round.                                                 *)
(***************************************************************************)

\* /compete, up to the await that sends the battle message: the checks, and
\* the view that the message carries.
compete ==
    \E a_id \in Users, b_id \in Users :
        /\ Len(battles) < MaxBattles
        /\ IF a_id = b_id
           THEN /\ last' = Did("compete", "yourself")
                /\ UNCHANGED <<battles, handlers>>
           ELSE IF ONGOING_BATTLES[a_id] # 0
           THEN /\ last' = Did("compete", "already_in_battle")
                /\ UNCHANGED <<battles, handlers>>
           ELSE IF ONGOING_BATTLES[b_id] # 0
           THEN /\ last' = Did("compete", "opponent_in_battle")
                /\ UNCHANGED <<battles, handlers>>
           ELSE IF ~HasBusiness(users[a_id])
           THEN /\ last' = Did("compete", "no_business")
                /\ UNCHANGED <<battles, handlers>>
           ELSE IF ~HasBusiness(users[b_id])
           THEN /\ last' = Did("compete", "opponent_no_business")
                /\ UNCHANGED <<battles, handlers>>
           ELSE /\ last' = Did("compete", "sent")
                /\ battles' = Append(battles,
                                     BattleView(a_id, b_id, users[a_id], users[b_id]))
                /\ handlers' = handlers \cup {Compete(Len(battles) + 1)}
        /\ UNCHANGED <<users, ONGOING_BATTLES>>
        /\ BattleFrame

\* /compete after the await: the message is registered for both players.
compete_registers ==
    \E c \in handlers :
        /\ c.kind = "compete"
        /\ LET n == c.session
           IN  /\ battles' = [battles EXCEPT ![n].message = n]
               /\ ONGOING_BATTLES' = [uid \in Users |->
                      IF uid \in Players(battles[n]) THEN n ELSE ONGOING_BATTLES[uid]]
        /\ handlers' = handlers \ {c}
        /\ last' = Did("compete", "registered")
        /\ UNCHANGED users
        /\ BattleFrame

InitCompete == InitStore(BalancesStocks, {"u1", "u2"})

NextCompete ==
    \/ compete
    \/ compete_registers
    \/ PlayerSelect_callback
    \/ BattleView_start_pressed
    \/ BattleView_forfeit_pressed
    \/ BattleView_on_timeout

SpecCompete == InitCompete /\ [][NextCompete]_vars

ActiveBattlesOf(uid) ==
    {n \in Sessions : uid \in Players(battles[n]) /\ ~battles[n].battle_over}

\* C10: at every moment each user takes part in at most one battle that is
\* not finalized, also when two challenges that involve the same user are
\* handled concurrently.
C10_OneActiveBattlePerUser ==
    \A uid \in Users : Cardinality(ActiveBattlesOf(uid)) <= 1

\* Two battles of the same user, neither finalized, both registered.
C10_TwoActiveBattles ==
    \E uid \in Users :
        /\ Cardinality(ActiveBattlesOf(uid)) = 2
        /\ handlers = {}

\* A challenge made once the battle message is registered creates no
\* session.
RegisteredBattleBlocksChallenge ==
    [][\A uid \in Users :
           (ONGOING_BATTLES[uid] # 0 /\ Len(battles') > Len(battles))
               => uid \notin Players(battles'[Len(battles')])]_vars

-----------------------------------------------------------------------------
(* The sale-pitch minigame, commands/minigame.py.                          *)
(*                                                                         *)
(* minigames[n] is the SellingView of the n-th game begun; its message id  *)
(* is n once the /minigame handler has fetched it.  ACTIVE_MINIGAMES[uid]  *)
(* is the message id registered for uid (0: no entry).  A /minigame        *)
(* handler that has sent its message and not yet registered it waits in    *)
(* `handlers`.                                                             *)
(***************************************************************************)

MaxGames == 4
LIVES == 3
RATING_STEP == 10
GoalChoices == {1, 2}
RewardChoices == {10}
PenaltyChoices == {10, 200}
BonusChoices == {200}

SellingView(owner_id, user_data, goal) ==
    [owner_id |-> owner_id, user_data |-> user_data, goal |-> goal,
     lives |-> LIVES, wins |-> 0, fails |-> 0, total_gained |-> 0,
     business_index |-> 0, ready_for_next |-> FALSE, over |-> FALSE,
     pitch_enabled |-> FALSE, end_enabled |-> FALSE, message_id |-> 0]

Games == DOMAIN minigames

GamesBegun(uid) == Cardinality({n \in Games : minigames[n].owner_id = uid})

Minigame(n, owner_id) == [kind |-> "minigame", session |-> n, owner_id |-> owner_id]

MinigameFrame == UNCHANGED <<now, stocks, equity, trades, purchases, market, views,
                             battles, ONGOING_BATTLES>>

\* self.over = True, the buttons disabled and self.stop(): the view takes no
\* further interaction, and what it held is dropped.
Stopped(view) ==
    [SellingView(view.owner_id, None, 0) EXCEPT !.over = TRUE,
                                                !.lives = 0,
                                                !.message_id = view.message_id]

\* A registry that keeps the owner's entry.
KeepActive(owner_id) == ACTIVE_MINIGAMES

\* ACTIVE_MINIGAMES.pop(owner_id, None)
PopActive(owner_id) == [ACTIVE_MINIGAMES EXCEPT ![owner_id] = 0]

\* A rating adjustment that stops at the battle floor of 0.1.
AdjustRatingAboveFloor(us, owner_id, business_index, delta) ==
    IF us[owner_id].slots[business_index] = None THEN us
    ELSE [us EXCEPT ![owner_id].slots[business_index].rating =
              10 * PyRound(Max(RATING_FLOOR, @ + delta), 10)]

\* `slot = slots[self.business_index] or {}` for a slot that was sold: the
\* dict that _adjust_rating stores in the slot holds a rating and nothing
\* else, and every other field reads as its default (0, empty).
RatingOnly(rating) ==
    [name |-> "", income_per_day |-> 0, base_income_per_day |-> 0,
     rating |-> rating, wins |-> 0, losses |-> 0, created_at |-> 0,
     last_collected_at |-> 0, total_earned |-> 0, products_sold |-> 0,
     pending_collect |-> 0, upgrades |-> <<>>]

\* SellingView._adjust_rating: the stored rating (1.0 where the slot holds
\* none) moves by delta, not below 0.0, rounded to one decimal.
_adjust_rating(us, owner_id, business_index, delta) ==
    IF us[owner_id].slots[business_index] = None
    THEN [us EXCEPT ![owner_id].slots[business_index] =
              RatingOnly(10 * PyRound(Max(0, 100 + delta), 10))]
    ELSE [us EXCEPT ![owner_id].slots[business_index].rating =
              10 * PyRound(Max(0, @ + delta), 10)]

\* /minigame, up to the awaits that send the message and fetch it: a new
\* game, unless the user has no business or an entry of theirs is registered.
minigame ==
    \E uid \in Users :
        /\ GamesBegun(uid) < MaxGames
        /\ IF ~HasBusiness(users[uid])
           THEN /\ last' = Did("minigame", "no_business")
                /\ UNCHANGED <<minigames, handlers>>
           ELSE IF ACTIVE_MINIGAMES[uid] # 0
           THEN /\ last' = Did("minigame", "already_active")
                /\ UNCHANGED <<minigames, handlers>>
           ELSE \E goal \in GoalChoices :
                    /\ last' = Did("minigame", "new_game")
                    /\ minigames' = Append(minigames, SellingView(uid, users[uid], goal))
                    /\ handlers' = handlers \cup {Minigame(Len(minigames) + 1, uid)}
        /\ UNCHANGED <<users, ACTIVE_MINIGAMES>>
        /\ MinigameFrame

\* /minigame after the awaits: the message is recorded as the user's active
\* game.
minigame_registers ==
    \E c \in handlers :
        /\ c.kind = "minigame"
        /\ minigames' = [minigames EXCEPT ![c.session].message_id = c.session]
        /\ ACTIVE_MINIGAMES' = [ACTIVE_MINIGAMES EXCEPT ![c.owner_id] = c.session]
        /\ handlers' = handlers \ {c}
        /\ last' = Did("minigame", "registered")
        /\ UNCHANGED users
        /\ MinigameFrame

\* SellingView._sel_cb and the customer it generates: the business is
\* chosen and the first customer arrives.
SellingView_sel_cb ==
    \E n \in Games :
        /\ LET view == minigames[n]
           IN  /\ ~view.over /\ view.business_index = 0
               /\ \E idx \in DOMAIN view.user_data.slots :
                      /\ view.user_data.slots[idx] # None
                      /\ minigames' = [minigames EXCEPT ![n] =
                             [view EXCEPT !.business_index = idx,
                                          !.pitch_enabled = TRUE,
                                          !.end_enabled = TRUE]]
        /\ last' = Did("SellingView._sel_cb", "customer")
        /\ UNCHANGED <<users, ACTIVE_MINIGAMES, handlers>>
        /\ MinigameFrame

\* SellingView._advance_or_end once the goal is met or the lives are spent:
\* the victory bonus, and the game is over.
_advance_or_end(view, balance, bonus) ==
    IF view.wins >= view.goal
    THEN [view |-> Stopped(view), balance |-> balance + bonus]
    ELSE [view |-> Stopped(view), balance |-> balance]

Pitch(n, owner_id) == [kind |-> "pitch", session |-> n, owner_id |-> owner_id]

\* A pitch of game n is with the judge.
PitchPending(n) == \E p \in handlers : p.kind = "pitch" /\ p.session = n

\* PitchModal.on_submit, up to the awaits that show the thinking state and
\* ask the judge: the pitch and skip buttons are disabled.
PitchModal_on_submit ==
    \E n \in Games :
        /\ LET view == minigames[n]
           IN  /\ ~view.over /\ view.pitch_enabled
               /\ minigames' = [minigames EXCEPT ![n].pitch_enabled = FALSE]
               /\ handlers' = handlers \cup {Pitch(n, view.owner_id)}
        /\ last' = Did("PitchModal.on_submit", "thinking")
        /\ UNCHANGED <<users, ACTIVE_MINIGAMES>>
        /\ MinigameFrame

\* What _gemini_generate hands to _judge_pitch: the model's answer, or ''
\* when the call failed, timed out or no model is configured.
PitchAnswers == {"", "YES", "NO"}

\* Pitches, by what the heuristic looks at: a short one that addresses the
\* customer, a longer one that addresses the customer, and a longer one
\* that only names a number.
PitchChoices ==
    {[words |-> 3, has_num |-> FALSE, has_customer |-> TRUE,
      has_social |-> FALSE, longish |-> FALSE],
     [words |-> 5, has_num |-> FALSE, has_customer |-> TRUE,
      has_social |-> FALSE, longish |-> FALSE],
     [words |-> 5, has_num |-> TRUE, has_customer |-> FALSE,
      has_social |-> FALSE, longish |-> FALSE]}

\* _heuristic_convincing: at least four words and a score of at least 2.
_heuristic_convincing(pitch) ==
    LET score == (IF pitch.has_num THEN 1 ELSE 0)
                 + (IF pitch.has_customer THEN 2 ELSE 0)
                 + (IF pitch.longish THEN 1 ELSE 0)
                 + (IF pitch.has_social THEN 1 ELSE 0)
    IN  pitch.words >= 4 /\ score >= 2

\* _judge_pitch: the model's YES or NO; without either the heuristic.
_judge_pitch(answer, pitch) ==
    IF answer = "YES" THEN TRUE
    ELSE IF answer = "NO" THEN FALSE
    ELSE _heuristic_convincing(pitch)

\* SellingView.apply_result_and_advance, once the judge has answered: a
\* sale pays a reward and raises the rating, a failure costs a life and a
\* penalty and lowers the rating; with the goal met or the lives spent the
\* game ends.  The view is not asked whether it has been ended meanwhile.
SellingView_apply_result_and_advance ==
    \E p \in handlers : \E answer \in PitchAnswers, pitch \in PitchChoices :
        /\ p.kind = "pitch"
        /\ LET ok == _judge_pitch(answer, pitch)
               input == IF answer = "" THEN <<answer, pitch>> ELSE <<answer>>
               n == p.session
               view == minigames[n]
               uid == view.owner_id
               biz == view.user_data.slots[view.business_index]
               income == biz.income_per_day
           IN  \E amount \in (IF ok THEN RewardChoices ELSE PenaltyChoices),
                  extra \in BonusChoices :
                   LET reward == income + amount
                       scored == IF ok
                                 THEN [view EXCEPT !.wins = @ + 1,
                                                   !.total_gained = @ + reward]
                                 ELSE [view EXCEPT !.fails = @ + 1,
                                                   !.lives = @ - 1]
                       adjusted == _adjust_rating(users, uid, view.business_index,
                                       IF ok THEN RATING_STEP ELSE 0 - RATING_STEP)
                       balance == IF ok THEN adjusted[uid].balance + reward
                                  ELSE Max(0, adjusted[uid].balance - amount)
                       cached == [scored EXCEPT
                                     !.user_data.slots[view.business_index].rating =
                                         adjusted[uid].slots[view.business_index].rating,
                                     !.pitch_enabled = FALSE]
                       bonus == income + extra
                       ended == _advance_or_end(cached, balance, bonus)
                   IN  /\ IF scored.wins >= scored.goal \/ scored.fails >= LIVES
                          THEN /\ minigames' = [minigames EXCEPT ![n] = ended.view]
                               /\ users' = [adjusted EXCEPT ![uid].balance = ended.balance]
                               /\ ACTIVE_MINIGAMES' = PopActive(uid)
                          ELSE /\ minigames' = [minigames EXCEPT ![n] =
                                      IF view.over THEN Stopped(view)
                                      ELSE [cached EXCEPT !.ready_for_next = TRUE]]
                               /\ users' = [adjusted EXCEPT ![uid].balance = balance]
                               /\ UNCHANGED ACTIVE_MINIGAMES
                       /\ last' = Judged("SellingView.apply_result_and_advance",
                                         IF ok THEN "sale" ELSE "no_sale", input)
        /\ handlers' = handlers \ {p}
        /\ MinigameFrame

\* SellingView._skip_cb and the customer it generates: the result is noted
\* as a failure and dropped, nothing is counted, and the next customer
\* arrives.  (The branch for a game that is already decided cannot be taken:
\* such a game is over and shows no buttons.)
SellingView_skip_cb ==
    \E n \in Games :
        /\ LET view == minigames[n]
           IN  /\ ~view.over /\ view.pitch_enabled
               /\ view.wins < view.goal /\ view.fails < LIVES
               /\ minigames' = [minigames EXCEPT ![n] =
                      [view EXCEPT !.ready_for_next = FALSE, !.pitch_enabled = TRUE]]
        /\ last' = Did("SellingView._skip_cb", "customer")
        /\ UNCHANGED <<users, ACTIVE_MINIGAMES, handlers>>
        /\ MinigameFrame

\* SellingView._next_cb and the customer it generates.
SellingView_next_cb ==
    \E n \in Games :
        /\ minigames[n].ready_for_next /\ ~minigames[n].over
        /\ minigames' = [minigames EXCEPT ![n] =
               [@ EXCEPT !.ready_for_next = FALSE, !.pitch_enabled = TRUE]]
        /\ last' = Did("SellingView._next_cb", "customer")
        /\ UNCHANGED <<users, ACTIVE_MINIGAMES, handlers>>
        /\ MinigameFrame

\* self.over = True and self.stop() in _end_cb and on_timeout: the view takes
\* no further interaction; a pitch that is with the judge still has the view.
Halted(n, view) ==
    IF PitchPending(n)
    THEN [view EXCEPT !.over = TRUE, !.pitch_enabled = FALSE, !.end_enabled = FALSE]
    ELSE Stopped(view)

\* SellingView._end_cb: the day ends with no bonus and no penalty.
SellingView_end_cb ==
    \E n \in Games :
        /\ minigames[n].end_enabled /\ ~minigames[n].over
        /\ minigames' = [minigames EXCEPT ![n] = Halted(n, @)]
        /\ ACTIVE_MINIGAMES' = PopActive(minigames[n].owner_id)
        /\ last' = Did("SellingView._end_cb", "ended")
        /\ UNCHANGED <<users, handlers>>
        /\ MinigameFrame

\* SellingView.on_timeout: an idle game ends.
SellingView_on_timeout ==
    \E n \in Games :
        /\ ~minigames[n].over
        /\ minigames' = [minigames EXCEPT ![n] = Halted(n, @)]
        /\ ACTIVE_MINIGAMES' = PopActive(minigames[n].owner_id)
        /\ last' = Did("SellingView.on_timeout", "timed_out")
        /\ UNCHANGED <<users, handlers>>
        /\ MinigameFrame

BalancesMinigame == [uid \in Users |-> 100]

InitMinigame == InitStore(BalancesMinigame, {"u1"})

\* No /minigame handler is between sending its message and registering it.
StartsSettled == \A c \in handlers : c.kind # "minigame"

\* No pitch is with the judge.
PitchesJudged == \A c \in handlers : c.kind # "pitch"

\* One owner plays game after game; what the owner does next waits until
\* the /minigame handler has registered the game.
NextMinigame ==
    \/ minigame_registers
    \/ SellingView_apply_result_and_advance
    \/ StartsSettled /\ PitchesJudged /\ minigame
    \/ StartsSettled /\ PitchesJudged /\ SellingView_sel_cb
    \/ StartsSettled /\ PitchesJudged /\ PitchModal_on_submit
    \/ StartsSettled /\ PitchesJudged /\ SellingView_skip_cb
    \/ StartsSettled /\ PitchesJudged /\ SellingView_next_cb
    \/ StartsSettled /\ PitchesJudged /\ SellingView_end_cb
    \/ StartsSettled /\ PitchesJudged /\ SellingView_on_timeout

SpecMinigame == InitMinigame /\ [][NextMinigame]_vars

\* C7: the rating of every stored business stays at or above the minimum of
\* 0.1, whatever battle rounds, battle results and minigame failures are
\* applied.
C7_RatingAtLeastFloor ==
    \A uid \in Users, i \in SlotIdx :
        users[uid].slots[i] # None => users[uid].slots[i].rating >= RATING_FLOOR

\* A failed pitch has just taken a rating to zero.
C7_RatingAtZero ==
    /\ last.op = "SellingView.apply_result_and_advance" /\ last.reply = "no_sale"
    /\ \E uid \in Users, i \in SlotIdx :
           users[uid].slots[i] # None /\ users[uid].slots[i].rating = 0

-----------------------------------------------------------------------------
(* SpecMinigameStart: /minigame requests of one owner, overlapping or not, *)
(* and what ends a game without a pitch.                                   *)
(***************************************************************************)

InitMinigameStart == InitStore(BalancesMinigame, {"u1"})

NextMinigameStart ==
    \/ minigame
    \/ minigame_registers
    \/ SellingView_sel_cb
    \/ SellingView_skip_cb
    \/ SellingView_end_cb
    \/ SellingView_on_timeout

SpecMinigameStart == InitMinigameStart /\ [][NextMinigameStart]_vars

ActiveGamesOf(uid) ==
    {n \in Games : minigames[n].owner_id = uid /\ ~minigames[n].over}

\* C11: at every moment each user has at most one minigame that is not
\* over; a /minigame request made while one is active creates no second
\* game, also when two requests of the same user are handled concurrently.
C11_OneActiveMinigamePerUser ==
    \A uid \in Users : Cardinality(ActiveGamesOf(uid)) <= 1

\* Two games of the same user, both registered, both with a customer
\* waiting.
C11_TwoActiveMinigames ==
    \E uid \in Users :
        /\ Cardinality(ActiveGamesOf(uid)) = 2
        /\ \A n \in ActiveGamesOf(uid) :
               minigames[n].message_id # 0 /\ minigames[n].pitch_enabled
        /\ StartsSettled

\* A /minigame request made once the game is registered creates no game.
RegisteredGameBlocksStart ==
    [][\A uid \in Users :
           (ACTIVE_MINIGAMES[uid] # 0 /\ Len(minigames') > Len(minigames))
               => minigames'[Len(minigames')].owner_id # uid]_vars

-----------------------------------------------------------------------------
(* SpecRatingRace: a battle between u1 and u2 that ends by forfeit or      *)
(* timeout, while one of the owners plays a minigame.                      *)
(***************************************************************************)

MaxRaceGames == 1

NextRatingRace ==
    \/ PlayerSelect_callback
    \/ BattleView_start_pressed
    \/ BattleView_forfeit_pressed
    \/ BattleView_on_timeout
    \/ Len(minigames) < MaxRaceGames /\ minigame
    \/ minigame_registers
    \/ SellingView_apply_result_and_advance
    \/ StartsSettled /\ PitchesJudged /\ SellingView_sel_cb
    \/ StartsSettled /\ PitchesJudged /\ PitchModal_on_submit
    \/ StartsSettled /\ PitchesJudged /\ SellingView_next_cb
    \/ StartsSettled /\ PitchesJudged /\ SellingView_end_cb

SpecRatingRace == InitBattle /\ [][NextRatingRace]_vars

\* Session n is finalized by this step (a result is persisted).
Finalizes(n) ==
    /\ ~battles[n].battle_over
    /\ battles'[n].battle_over
    /\ last'.op # "BattleView.on_timeout"

\* The stored rating after a finalization that loses no update: the stored
\* rating before it, moved by what the battle changed since the business
\* was chosen.
RatingCarried(stored, session_rating, slot) ==
    Max(RATING_FLOOR, stored + session_rating - SelectedRating(slot))

\* C12: a handler that writes an account field starts from the stored value
\* it has just read, so no update of another handler is lost: when a battle
\* is finalized, the stored rating of each chosen business is its stored
\* rating moved by the battle's own change, and so still carries a rating
\* change that a minigame made meanwhile.
C12_NoRatingUpdateLost ==
    [][\A n \in Sessions :
           Finalizes(n) =>
               LET b == battles[n]
               IN  /\ users'[b.a_id].slots[b.a_choice].rating =
                          RatingCarried(users[b.a_id].slots[b.a_choice].rating,
                                        battles'[n].a_rating,
                                        b.a_data.slots[b.a_choice])
                   /\ users'[b.b_id].slots[b.b_choice].rating =
                          RatingCarried(users[b.b_id].slots[b.b_choice].rating,
                                        battles'[n].b_rating,
                                        b.b_data.slots[b.b_choice])]_vars

\* A forfeit has just been persisted, and the rating that a running
\* minigame of a player recorded for the chosen business after a sale is no
\* longer the stored one.
C12_MinigameChangeOverwritten ==
    /\ last = Did("BattleView._forfeit_pressed", "forfeited")
    /\ \E n \in Sessions, g \in Games :
           /\ battles[n].battle_over
           /\ ~minigames[g].over
           /\ minigames[g].owner_id = battles[n].a_id
           /\ minigames[g].business_index = battles[n].a_choice
           /\ minigames[g].wins > 0
           /\ minigames[g].user_data.slots[battles[n].a_choice].rating #
                  users[battles[n].a_id].slots[battles[n].a_choice].rating

\* What a finalization may write of a slot: its rating and its record.
SameButRatingAndRecord(new, old) ==
    [new EXCEPT !.rating = old.rating, !.wins = old.wins, !.losses = old.losses] = old

\* C13: finalizing a battle writes only the rating, the wins and the losses
\* of the two chosen slots; base_income_per_day and income_per_day of every
\* slot and every balance stay as they were.
C13_FinalizeWritesRatingAndRecord ==
    [][\A n \in Sessions :
           Finalizes(n) =>
               LET b == battles[n]
                   chosen == {<<b.a_id, ChoiceOrFirst(b.a_choice)>>,
                              <<b.b_id, ChoiceOrFirst(b.b_choice)>>}
               IN  \A uid \in Users :
                       /\ users'[uid].balance = users[uid].balance
                       /\ users'[uid].purchased_slots = users[uid].purchased_slots
                       /\ \A i \in DOMAIN users[uid].slots :
                              IF <<uid, i>> \in chosen
                              THEN SameButRatingAndRecord(users'[uid].slots[i],
                                                          users[uid].slots[i])
                              ELSE users'[uid].slots[i] = users[uid].slots[i]]_vars

\* A judged round has just finalized a battle for A: the win and the raised
\* rating are stored.
C13_WinPersisted ==
    /\ last.op = "BattleView.judge" /\ last.reply = "A_wins"
    /\ \E n \in Sessions :
           LET b == battles[n]
               slot == users[b.a_id].slots[b.a_choice]
           IN  /\ b.battle_over
               /\ slot.wins = 1
               /\ slot.rating = b.a_rating
               /\ slot.rating > b.a_start_rating

-----------------------------------------------------------------------------
(* Stake sales, under SpecEquity *)

SellRejections == {"more_than_owned", "no_longer_owned", "owner_not_enough_funds"}

\* C14: a sale of p percent that the seller confirms, p not above what the seller holds and
\* the owner able to pay, with payout round(sell_value * p / 100), credits
\* the seller and debits the owner by the payout and takes p off the
\* seller's entry, which is removed when nothing is left (a whole stake of
\* 10% sold at sell value 1000 pays 100); a sale of more than the seller
\* holds, or that the owner cannot pay, is rejected and changes nothing.
C14_StakeSale ==
    [][/\ StakePrice(1000, 100) = 100
       /\ \A v \in views \ views' :
              (v.kind = "SellConfirmView" /\ last'.op = "SellConfirmView._confirm") =>
                  LET held == EntriesOf(equity[v.owner_id][v.slot_index], v.user)
                      left == EntriesOf(equity'[v.owner_id][v.slot_index], v.user)
                  IN  /\ v.amount = StakePrice(v.sell_value, v.pct.t)
                      /\ IF CanSellNow(v)
                         THEN /\ StakeSold(v)
                              /\ last'.reply = "sold"
                              /\ (left = <<>>) <=> (SumTenths(held) = v.pct.t)
                         ELSE /\ Balances' = Balances /\ equity' = equity
                              /\ last'.reply \in SellRejections
       /\ last'.reply \in SellRejections => (Balances' = Balances /\ equity' = equity)]_vars

\* A whole stake has just been sold back: the seller's entry is gone and
\* the owner has paid.
C14_WholeStakeSoldBack ==
    /\ last = Did("SellConfirmView._confirm", "sold")
    /\ trades >= 2
    /\ \A owner_id \in Users, slot_index \in SlotIdx : equity[owner_id][slot_index] = <<>>

\* A part of a stake has just been sold: the entry is still there.
StakePartSold ==
    /\ last = Did("SellConfirmView._confirm", "sold")
    /\ \E owner_id \in Users, slot_index \in SlotIdx : equity[owner_id][slot_index] # <<>>

\* A sale has just been turned away at the confirmation.
StaleSaleRejected ==
    /\ last.op = "SellConfirmView._confirm"
    /\ last.reply \in SellRejections

-----------------------------------------------------------------------------
(* The rating delta of a round, under SpecBattle.                          *)
(***************************************************************************)

\* A judge step of session n whose result line names a winner and a loser:
\* no argument was flagged by the AI detection.
NormalRound(j) ==
    /\ j.kind = "judge"
    /\ last'.op = "BattleView.judge"
    /\ last'.reply \in {"A_wins", "B_wins", "next_round"}

DocumentedMultiplier(round) ==
    IF round \in 1..4 THEN 1 ELSE IF round \in 5..9 THEN 2 ELSE 4

\* C16: the battle multiplier is x1 in rounds 1-4, x2 in rounds 5-9 and x4
\* in rounds 10-14, so it doubles for the first time at round 5: the winner
\* of a normal round in one of these rounds gains 0.1 times that multiplier.
C16_MultiplierTable ==
    [][\A j \in handlers \ handlers' :
           (NormalRound(j) /\ battles[j.session].round \in 1..14) =>
               LET old == battles[j.session]
                   new == battles'[j.session]
                   delta == BASE_DELTA * DocumentedMultiplier(old.round)
               IN  \/ new.a_rating = old.a_rating + delta
                   \/ new.b_rating = old.b_rating + delta]_vars

\* Round 5 has just been judged with the single delta: A won rounds 1, 3
\* and 5, lost rounds 2 and 4, and stands 0.1 above the starting rating.
C16_RoundFiveSingleDelta ==
    /\ last.op = "BattleView.judge" /\ last.reply = "next_round"
    /\ \E n \in Sessions :
           /\ battles[n].round = 6
           /\ current_multiplier([battles[n] EXCEPT !.round = 5]) = 1
           /\ battles[n].a_rating = battles[n].a_start_rating + BASE_DELTA
           /\ battles[n].b_rating = battles[n].b_start_rating - BASE_DELTA

-----------------------------------------------------------------------------
(* SpecFloorBattle: the battle of SpecBattle between two businesses that   *)
(* have both lost rating before and are stored with 0.1, the floor that a  *)
(* lost battle leaves behind.                                              *)
(***************************************************************************)

InitFloorBattle ==
    /\ now = Epoch0
    /\ users = Rated(UsersWith(BalancesStocks, Users), [uid \in Users |-> RATING_FLOOR])
    /\ stocks = InitStocks
    /\ equity = [uid \in Users |-> [i \in SlotIdx |-> <<>>]]
    /\ trades = 0
    /\ purchases = [uid \in Users |-> [i \in SlotIdx |-> <<>>]]
    /\ market = [upgrades |-> <<>>, last_id |-> 0]
    /\ views = {}
    /\ battles = <<[BattleView("u1", "u2", users["u1"], users["u2"]) EXCEPT !.message = 1]>>
    /\ ONGOING_BATTLES = [uid \in Users |-> IF uid \in {"u1", "u2"} THEN 1 ELSE 0]
    /\ handlers = {}
    /\ minigames = <<>>
    /\ ACTIVE_MINIGAMES = [uid \in Users |-> 0]
    /\ last = Quiet

SpecFloorBattle == InitFloorBattle /\ [][NextBattle]_vars

Abs(x) == IF x < 0 THEN -x ELSE x

\* C17: every judged battle round changes at least one of the two session
\* ratings by at least 0.1 * multiplier(round); no round leaves both
\* ratings unchanged, also when a rating is at the 0.1 floor or both
\* arguments are flagged as AI-generated.
C17_RoundMovesARating ==
    [][\A j \in handlers \ handlers' :
           j.kind = "judge" =>
               LET old == battles[j.session]
                   new == battles'[j.session]
                   delta == BASE_DELTA * current_multiplier(old)
               IN  \/ Abs(new.a_rating - old.a_rating) >= delta
                   \/ Abs(new.b_rating - old.b_rating) >= delta]_vars

\* Round 1 of a battle between two businesses rated 0.1 has been judged
\* with both arguments flagged: both ratings are where they were.
C17_BothFlaggedOnTheFloor ==
    /\ last.op = "BattleView.judge" /\ last.reply = JudgeResult(TRUE, TRUE, "next_round")
    /\ \E n \in Sessions :
           /\ battles[n].round = 2
           /\ battles[n].a_start_rating = RATING_FLOOR
           /\ battles[n].b_start_rating = RATING_FLOOR
           /\ battles[n].a_rating = battles[n].a_start_rating
           /\ battles[n].b_rating = battles[n].b_start_rating

-----------------------------------------------------------------------------
(* A round without an AI flag, under SpecBattle.                           *)
(***************************************************************************)

\* The battle began at 1.0 against 1.0 and A has won every round so far,
\* none of them flagged.
AKeepsWinning(battle) ==
    /\ battle.a_start_rating = 100 /\ battle.b_start_rating = 100
    /\ battle.round \in 1..5
    /\ battle.a_rating = 100 + BASE_DELTA * (battle.round - 1)
    /\ battle.b_rating = 100 - BASE_DELTA * (battle.round - 1)

\* C18: in a round with no AI flag the judged winner's rating rises by the
\* round delta and the loser's falls by the same delta, clamped at 0.1.
\* From 1.0 / 1.0 a round-1 win by A gives A = 1.1 and B = 0.9, and if A
\* keeps winning the battle is finalized with A as the winner in the first
\* round after which B is at or below 0.5, and in no round before (unless
\* a player forfeits).
C18_NormalRound ==
    [][\A j \in handlers \ handlers' :
           NormalRound(j) =>
               LET old == battles[j.session]
                   new == battles'[j.session]
                   delta == BASE_DELTA * 2 ^ ((old.round - 1) \div 5)
                   a_won == new.a_rating > old.a_rating
               IN  /\ IF a_won
                      THEN /\ new.a_rating = old.a_rating + delta
                           /\ new.b_rating = Max(RATING_FLOOR, old.b_rating - delta)
                      ELSE /\ new.b_rating = old.b_rating + delta
                           /\ new.a_rating = Max(RATING_FLOOR, old.a_rating - delta)
                   /\ (AKeepsWinning(old) /\ a_won /\ ~old.battle_over) =>
                          /\ old.round = 1 => (new.a_rating = 110 /\ new.b_rating = 90)
                          /\ new.battle_over <=> new.b_rating <= 50
                          /\ new.battle_over =>
                                 /\ last'.reply = "A_wins"
                                 /\ WinsOf(users', old.a_id, old.a_choice)
                                        = WinsOf(users, old.a_id, old.a_choice) + 1
                                 /\ users'[old.b_id].slots[old.b_choice].losses
                                        = users[old.b_id].slots[old.b_choice].losses + 1
                          /\ ~new.battle_over => new.round = old.round + 1]_vars

\* A has won five rounds in a row from 1.0 against 1.0: B is at 0.5 and
\* the battle is finalized for A.
C18_FiveWinsFinalize ==
    /\ last.op = "BattleView.judge" /\ last.reply = "A_wins"
    /\ \E n \in Sessions :
           LET b == battles[n]
           IN  /\ b.battle_over /\ b.round = 5
               /\ b.a_start_rating = 100 /\ b.b_start_rating = 100
               /\ b.a_rating = 150 /\ b.b_rating = 50
               /\ users[b.a_id].slots[b.a_choice].wins = 1

-----------------------------------------------------------------------------
(* Skipped customers and judged pitches, under SpecMinigame.               *)
(***************************************************************************)

\* C19: skipping a customer counts as a failure: each skip raises the
\* session's fail count by one and takes one of the 3 lives, so that three
\* skips end the session.
C19_SkipCountsAsFailure ==
    [][last'.op = "SellingView._skip_cb" =>
           \E n \in Games :
               /\ ~minigames[n].over /\ minigames[n].pitch_enabled
               /\ minigames'[n].fails = minigames[n].fails + 1
               /\ minigames'[n].lives = minigames[n].lives - 1
               /\ minigames'[n].over <=> minigames'[n].fails >= LIVES]_vars

\* A customer has just been skipped in a game that still shows no failure
\* and all three lives.
C19_SkipCostsNothing ==
    /\ last = Did("SellingView._skip_cb", "customer")
    /\ \E n \in Games :
           /\ ~minigames[n].over /\ minigames[n].pitch_enabled
           /\ minigames[n].wins = 0
           /\ minigames[n].fails = 0
           /\ minigames[n].lives = LIVES
           /\ \A m \in Games \ {n} : minigames[m].over

\* What a game's victory adds to the balance with the pitch that meets the
\* goal: nothing before, the victory bonus then.
VictoryBonuses(view, income) ==
    IF view.wins + 1 >= view.goal THEN {income + extra : extra \in BonusChoices} ELSE {0}

\* C20: a successful minigame pitch increases the player's balance by the
\* reward, which is the business's income plus a positive bonus, and raises
\* the stored rating of the chosen business by 0.1 (the pitch that meets
\* the goal also brings the victory bonus); a failed pitch lowers the
\* balance by the penalty, but not below 0, and lowers the stored rating by
\* 0.1, but not below 0.
C20_PitchOutcome ==
    [][last'.op = "SellingView.apply_result_and_advance" =>
           \A n \in Games :
               minigames'[n] # minigames[n] =>
                   LET view == minigames[n]
                       uid == view.owner_id
                       idx == view.business_index
                       income == users[uid].slots[idx].income_per_day
                       gain == users'[uid].balance - users[uid].balance
                       rating == users[uid].slots[idx].rating
                       rating_after == users'[uid].slots[idx].rating
                   IN  IF last'.reply = "sale"
                       THEN /\ \E amount \in RewardChoices, victory \in VictoryBonuses(view, income) :
                                  /\ amount > 0
                                  /\ gain = (income + amount) + victory
                            /\ rating_after = rating + RATING_STEP
                       ELSE /\ last'.reply = "no_sale"
                            /\ \E penalty \in PenaltyChoices :
                                  /\ penalty > 0
                                  /\ users'[uid].balance = Max(0, users[uid].balance - penalty)
                            /\ users'[uid].balance >= 0
                            /\ rating_after = Max(0, rating - RATING_STEP)]_vars

\* A failed pitch has just cost more than the player had: the balance is
\* at 0 and the rating of the business one step below 1.0.
C20_PenaltyEmptiedBalance ==
    /\ last.op = "SellingView.apply_result_and_advance" /\ last.reply = "no_sale"
    /\ \E n \in Games :
           LET view == minigames[n]
           IN  /\ ~view.over /\ view.fails = 1 /\ view.wins = 0
               /\ users[view.owner_id].balance = 0
               /\ users[view.owner_id].slots[view.business_index].rating = 100 - RATING_STEP

\* A pitch has just sold, with the goal still ahead: the reward is paid and
\* the rating of the business is one step above 1.0.
PitchSold ==
    /\ last.op = "SellingView.apply_result_and_advance" /\ last.reply = "sale"
    /\ \E n \in Games :
           LET view == minigames[n]
               slot == users[view.owner_id].slots[view.business_index]
           IN  /\ ~view.over /\ view.wins = 1 /\ view.fails = 0
               /\ users[view.owner_id].balance = BalancesMinigame[view.owner_id] + view.total_gained
               /\ view.total_gained > slot.income_per_day
               /\ slot.rating = 100 + RATING_STEP

-----------------------------------------------------------------------------
(* SpecPitchRace: the games of SpecMinigame, with the End button pressed   *)
(* also while a pitch is with the judge (the button stays enabled while    *)
(* the view shows the thinking state).                                     *)
(***************************************************************************)

MaxPitchRaceGames == 2

NextPitchRace ==
    \/ minigame_registers
    \/ SellingView_apply_result_and_advance
    \/ StartsSettled /\ Len(minigames) < MaxPitchRaceGames /\ minigame
    \/ StartsSettled /\ PitchesJudged /\ SellingView_sel_cb
    \/ StartsSettled /\ PitchesJudged /\ PitchModal_on_submit
    \/ StartsSettled /\ PitchesJudged /\ SellingView_next_cb
    \/ StartsSettled /\ SellingView_end_cb

SpecPitchRace == InitMinigame /\ [][NextPitchRace]_vars

\* What the pitch judged in this step does to game n: the game reaches its
\* win goal, spends its last life, or goes on.
ReachesGoal(n) ==
    /\ last'.reply = "sale"
    /\ minigames[n].wins + 1 >= minigames[n].goal

SpendsLastLife(n) ==
    /\ last'.reply = "no_sale"
    /\ minigames[n].fails + 1 >= LIVES

\* The balance of the owner of game n rises in this step by more than any
\* pitch reward: the victory bonus is credited.
BonusCredited(n) ==
    LET uid == minigames[n].owner_id
        income == users[uid].slots[minigames[n].business_index].income_per_day
    IN  \E amount \in RewardChoices \cup {0}, extra \in BonusChoices :
            users'[uid].balance - users[uid].balance
                \in {income + extra, (income + amount) + (income + extra)}

\* C21: a minigame session ends as soon as its win count reaches the goal
\* or its fail count reaches 3; the victory bonus is credited when and only
\* when the session ends by reaching the win goal, and a session ended by
\* the fail limit or ended before credits no bonus.
C21_EndsAtGoalOrLimit ==
    [][\A p \in handlers \ handlers' :
           p.kind = "pitch" =>
               LET n == p.session
               IN  /\ (ReachesGoal(n) \/ SpendsLastLife(n)) => minigames'[n].over
                   /\ (~minigames[n].over /\ ~ReachesGoal(n) /\ ~SpendsLastLife(n))
                          => ~minigames'[n].over
                   /\ BonusCredited(n) <=> (ReachesGoal(n) /\ ~minigames[n].over)]_vars

\* The first game was ended while its only pitch was with the judge, and a
\* second game was begun; the pitch has now been judged a sale: the ended
\* game has paid reward and victory bonus, and the running second game is
\* no longer registered.
C21_BonusAfterEndDay ==
    /\ last.op = "SellingView.apply_result_and_advance" /\ last.reply = "sale"
    /\ Len(minigames) = 2
    /\ minigames[1].over
    /\ ~minigames[2].over /\ minigames[2].wins = 0 /\ minigames[2].fails = 0
    /\ minigames[2].message_id = 2
    /\ ACTIVE_MINIGAMES[minigames[2].owner_id] = 0
    /\ \E extra \in BonusChoices :
           users[minigames[1].owner_id].balance
               > BalancesMinigame[minigames[1].owner_id] + extra

-----------------------------------------------------------------------------
(* Ending a game early, under SpecMinigame.                                *)
(***************************************************************************)

\* C22: ending a minigame early moves the session to Ended and removes the
\* user from the active-session registry, and leaves the player's balance
\* and the rating of the business (and the rest of the stored accounts)
\* exactly as they were before the End action.
C22_EndDayCostsNothing ==
    [][last'.op = "SellingView._end_cb" =>
           /\ \E n \in Games :
                  /\ ~minigames[n].over
                  /\ minigames'[n].over
                  /\ ACTIVE_MINIGAMES'[minigames[n].owner_id] = 0
                  /\ \A m \in Games \ {n} : minigames'[m] = minigames[m]
           /\ users' = users]_vars

\* A game in which a failed pitch has cost the whole balance and a rating
\* step has just been ended: the balance and the rating are as the pitch
\* left them, and the owner is not registered.
C22_EndedAfterFailedPitch ==
    /\ last = Did("SellingView._end_cb", "ended")
    /\ Len(minigames) = 1
    /\ minigames[1].over
    /\ ACTIVE_MINIGAMES[minigames[1].owner_id] = 0
    /\ users[minigames[1].owner_id].balance = 0
    /\ \E i \in SlotIdx :
           /\ users[minigames[1].owner_id].slots[i] # None
           /\ users[minigames[1].owner_id].slots[i].rating = 100 - RATING_STEP

-----------------------------------------------------------------------------
(* SpecSessions: a battle between u1 and u2 of at most MaxSessionRounds    *)
(* rounds, and after it one minigame of the challenger; End Day may be     *)
(* pressed while the pitch is with the judge.                              *)
(***************************************************************************)

MaxSessionRounds == 3
MaxSessionGames == 1

InitSessions ==
    /\ InitBattle
    /\ users = Rated(UsersWith(BalancesStocks, Users), [uid \in Users |-> 100])

\* Every battle is over and none of its handlers is still under way.
BattlesOver == handlers = {} /\ \A n \in Sessions : battles[n].battle_over

\* The minigames are those of the challenger.
PlayedByA ==
    \A n \in DOMAIN minigames' : \E b \in Sessions : minigames'[n].owner_id = battles[b].a_id

RoundsLeft == \A n \in Sessions : battles[n].round <= MaxSessionRounds

NextSessions ==
    \/ PlayerSelect_callback
    \/ BattleView_start_pressed
    \/ RoundsLeft /\ BattleView_submit_pressed
    \/ ArgumentModal_on_submit
    \/ BattleView_judge
    \/ BattleView_forfeit_pressed
    \/ BattleView_on_timeout
    \/ BattlesOver /\ Len(minigames) < MaxSessionGames /\ minigame /\ PlayedByA
    \/ minigame_registers
    \/ SellingView_apply_result_and_advance
    \/ StartsSettled /\ PitchesJudged /\ SellingView_sel_cb
    \/ StartsSettled /\ PitchesJudged /\ PitchModal_on_submit
    \/ StartsSettled /\ PitchesJudged /\ SellingView_next_cb
    \/ StartsSettled /\ SellingView_end_cb
    \/ StartsSettled /\ PitchesJudged /\ SellingView_on_timeout

SpecSessions == InitSessions /\ [][NextSessions]_vars

\* The cancelling transitions lead directly to the terminal state.
CancelEndsTheSession ==
    /\ last'.op = "BattleView._forfeit_pressed" =>
           \E n \in Sessions : ~battles[n].battle_over /\ battles'[n].battle_over
    /\ last'.op = "SellingView._end_cb" =>
           \E n \in Games : ~minigames[n].over /\ minigames'[n].over

NoForfeitBeforeStart ==
    \E n \in Sessions :
        /\ ~battles[n].battle_over /\ ~battles[n].started
        /\ both_selected(battles[n])
        /\ ~forfeit_enabled(battles[n])

\* User uid takes part in a battle, or plays a minigame, that is not over.
InLiveBattle(uid) ==
    \E n \in Sessions : ~battles[n].battle_over /\ uid \in Players(battles[n])

InLiveMinigame(uid) ==
    \E n \in Games : ~minigames[n].over /\ minigames[n].owner_id = uid

\* C24: when a battle or minigame session times out it becomes terminal and
\* its participants are removed from the active-session registry; and no
\* terminal session (timed out, forfeited, won, lost or ended) leaves a user
\* registered as busy: whoever is registered has a session that is not
\* over, so that every participant of a terminal session can start anew.
C24_TerminalSessionsFreeUsers ==
    [][/\ last'.op = "BattleView.on_timeout" =>
              \E n \in Sessions :
                  /\ ~battles[n].finished
                  /\ battles'[n].battle_over
                  /\ \A uid \in Players(battles[n]) : ONGOING_BATTLES'[uid] = 0
       /\ last'.op = "SellingView.on_timeout" =>
              \E n \in Games :
                  /\ ~minigames[n].over
                  /\ minigames'[n].over
                  /\ ACTIVE_MINIGAMES'[minigames[n].owner_id] = 0
       /\ \A uid \in Users :
              /\ ONGOING_BATTLES'[uid] # 0 => InLiveBattle(uid)'
              /\ ACTIVE_MINIGAMES'[uid] # 0 => InLiveMinigame(uid)']_vars

\* The battle was decided by the judge and the winner's minigame has just
\* timed out: nobody is registered any more.
C24_AllSessionsOverNobodyBusy ==
    /\ last = Did("SellingView.on_timeout", "timed_out")
    /\ Len(battles) = 1 /\ battles[1].battle_over /\ battles[1].round = 3
    /\ ~battles[1].judging
    /\ Len(minigames) = 1 /\ minigames[1].over
    /\ minigames[1].owner_id \in Players(battles[1])
    /\ users[minigames[1].owner_id].slots[1].wins = 1
    /\ \A uid \in Users : ONGOING_BATTLES[uid] = 0 /\ ACTIVE_MINIGAMES[uid] = 0

-----------------------------------------------------------------------------
(* The judge fails, under SpecSessions.                                    *)
(***************************************************************************)

\* The step just taken was decided without the model: it gave no text.
JudgeFailed == last'.judged # <<>> /\ last'.judged[1] = ""

\* C25: when the external judge returns an empty string or times out, the
\* battle round is still decided in the same judging step (the argument
\* with more words wins, with equally many words either player may win by
\* the coin flip) and the minigame pitch is decided by the local heuristic;
\* no judge failure leaves a session waiting in Judging.
C25_JudgeFailureFallsBack ==
    [][/\ \A j \in handlers \ handlers' :
              (j.kind = "judge" /\ JudgeFailed) =>
                  LET old == battles[j.session]
                      new == battles'[j.session]
                      lenA == last'.judged[2]
                      lenB == last'.judged[3]
                      a_won == new.a_rating > old.a_rating
                      b_won == new.b_rating > old.b_rating
                  IN  /\ a_won # b_won
                      /\ lenA > lenB => a_won
                      /\ lenA < lenB => b_won
                      /\ ~new.judging
                      /\ new.battle_over \/ (new.round = old.round + 1
                                               /\ ~new.a_argument /\ ~new.b_argument)
       /\ \A p \in handlers \ handlers' :
              (p.kind = "pitch" /\ JudgeFailed) =>
                  LET pitch == last'.judged[2]
                      score == (IF pitch.has_num THEN 1 ELSE 0)
                               + (IF pitch.has_customer THEN 2 ELSE 0)
                               + (IF pitch.longish THEN 1 ELSE 0)
                               + (IF pitch.has_social THEN 1 ELSE 0)
                      old == minigames[p.session]
                      new == minigames'[p.session]
                  IN  /\ last'.reply = "sale" <=> (pitch.words >= 4 /\ score >= 2)
                      /\ last'.reply \in {"sale", "no_sale"}
                      /\ ~PitchPending(p.session)'
                      /\ new.over \/ new.ready_for_next]_vars

\* A round has just been decided by the word count, the model having given
\* no answer: B wrote more words, took the round, and the next round is open.
C25_RoundDecidedByWords ==
    /\ last.op = "BattleView.judge" /\ last.reply = "next_round"
    /\ last.judged = <<"", 2, 3>>
    /\ \E n \in Sessions :
           /\ battles[n].round = 2 /\ ~battles[n].judging
           /\ ~battles[n].a_argument /\ ~battles[n].b_argument
           /\ battles[n].b_rating > battles[n].b_start_rating

\* A pitch has just been decided by the heuristic, the model having given
\* no answer: it names the customer but is too short, and did not sell.
C25_PitchDecidedByHeuristic ==
    /\ last.op = "SellingView.apply_result_and_advance" /\ last.reply = "no_sale"
    /\ last.judged # <<>> /\ last.judged[1] = ""
    /\ last.judged[2].has_customer /\ last.judged[2].words < 4
    /\ \E n \in Games : PitchesJudged /\ minigames[n].fails = 1 /\ minigames[n].ready_for_next

-----------------------------------------------------------------------------
(* SpecJudgeFault: one battle, u1 against u2, while every user may sell     *)
(* their business from the /passive view; the businesses are older than    *)
(* the ten minutes for which a sale is refused.                            *)
(***************************************************************************)

MaxFaultRounds == 2

\* A ledger that keeps the entries of the slot.
LedgerKept(ledger, uid, idx) == ledger

\* `del urec[str(slot_index)]`: the purchased upgrades recorded for the slot
\* are dropped from the ledger.
ClearedLedger(ledger, uid, idx) == [ledger EXCEPT ![uid][idx] = <<>>]

\* passive.BusinessView.sell (interaction_check lets only the owner in): the
\* business is sold for its sell value, the slot is emptied and the ledger
\* entries of the slot are dropped; refused for an empty slot and during
\* the first ten minutes of a business.
BusinessView_sell ==
    \E uid \in Users : \E idx \in DOMAIN users[uid].slots :
        LET slot == users[uid].slots[idx]
        IN  /\ IF slot = None
               THEN /\ last' = Did("BusinessView.sell", "slot_empty")
                    /\ UNCHANGED <<users, purchases>>
               ELSE IF slot.created_at > 0
                       /\ Max(0, now - slot.created_at) < SELL_HOLD_SECONDS
               THEN /\ last' = Did("BusinessView.sell", "hold")
                    /\ UNCHANGED <<users, purchases>>
               ELSE /\ users' = [users EXCEPT
                           ![uid].balance = @ + _sell_value(slot, uid, idx, now),
                           ![uid].slots[idx] = None]
                    /\ purchases' = ClearedLedger(purchases, uid, idx)
                    /\ last' = Did("BusinessView.sell", "sold")
            /\ UNCHANGED <<now, stocks, equity, trades, market, views, battles,
                           ONGOING_BATTLES, handlers, minigames, ACTIVE_MINIGAMES>>

InitJudgeFault ==
    /\ now = Epoch0 + SELL_HOLD_SECONDS
    /\ users = Rated(UsersWith(BalancesStocks, Users), [uid \in Users |-> 100])
    /\ stocks = InitStocks
    /\ equity = [uid \in Users |-> [i \in SlotIdx |-> <<>>]]
    /\ trades = 0
    /\ purchases = [uid \in Users |-> [i \in SlotIdx |-> <<>>]]
    /\ market = [upgrades |-> <<>>, last_id |-> 0]
    /\ views = {}
    /\ battles = <<[BattleView("u1", "u2", users["u1"], users["u2"]) EXCEPT !.message = 1]>>
    /\ ONGOING_BATTLES = [uid \in Users |-> IF uid \in {"u1", "u2"} THEN 1 ELSE 0]
    /\ handlers = {}
    /\ minigames = <<>>
    /\ ACTIVE_MINIGAMES = [uid \in Users |-> 0]
    /\ last = Quiet

FaultRoundsLeft == \A n \in Sessions : battles[n].round <= MaxFaultRounds

NextJudgeFault ==
    \/ PlayerSelect_callback
    \/ BattleView_start_pressed
    \/ FaultRoundsLeft /\ BattleView_submit_pressed
    \/ ArgumentModal_on_submit
    \/ BattleView_judge
    \/ BattleView_forfeit_pressed
    \/ BattleView_on_timeout
    \/ BusinessView_sell

SpecJudgeFault == InitJudgeFault /\ [][NextJudgeFault]_vars

\* C26: a fault during judging, such as the chosen slot having been emptied
\* by a business sale during the battle, never leaves the battle in a
\* non-terminal state in which both arguments are recorded and neither
\* player can submit again: after the judging step the battle is over, or
\* it is in a round in which the arguments of both players are open.
C26_JudgingLeavesTheBattlePlayable ==
    [][\A j \in handlers \ handlers' :
          j.kind = "judge" =>
              LET new == battles'[j.session]
              IN  \/ new.battle_over
                  \/ /\ submit_enabled(new)
                     /\ ~new.a_argument /\ ~new.b_argument]_vars

\* u2 sold the chosen business while the first round was being argued: the
\* judge raised, the battle is not over, nothing is being judged, both
\* arguments are on record, and Submit answers both players that they have
\* already submitted.
C26_StuckAfterTheJudgeRaised ==
    /\ last.op = "BattleView.judge" /\ last.reply = "raised"
    /\ \E n \in Sessions :
           /\ ~battles[n].battle_over /\ ~battles[n].judging
           /\ battles[n].round = 1
           /\ battles[n].a_argument /\ battles[n].b_argument
           /\ submit_enabled(battles[n])
           /\ users[battles[n].b_id].slots[battles[n].b_choice] = None
           /\ handlers = {}

-----------------------------------------------------------------------------
(* SpecTicker: the two tickers alone, over enough hours for the percentage *)
(* to climb from its default to either end of its range.                   *)
(***************************************************************************)

MaxTickerSteps == 12

\* Time passes, for longer than under SpecStocks.
TickerAdvance ==
    /\ now + ClockStep <= Epoch0 + MaxTickerSteps * ClockStep
    /\ now' = now + ClockStep
    /\ last' = Did("advance", "")
    /\ UNCHANGED <<users, stocks, equity, trades, purchases, market, views, battles,
                   ONGOING_BATTLES, handlers, minigames, ACTIVE_MINIGAMES>>

NextTicker ==
    \/ TickerAdvance
    \/ StocksTask
    \/ StocksCommand
    \/ StocksViewRefresh

SpecTicker == InitStocksSpec /\ [][NextTicker]_vars

\* Consecutive samples of the history differ by at most 10 points.
StepsAtMostTen ==
    \A i \in 1..(Len(stocks.history) - 1) :
        Abs(stocks.history[i + 1].pct - stocks.history[i].pct) <= 100

\* C27: the global stock percentage current_pct stays within [0, 100] in
\* every reachable state, whichever ticker path (background task or
\* user-facing stocks action) applies the steps, and each applied step
\* changes it by at most 10.
C27_PctWithinZeroAndHundred ==
    /\ stocks.current_pct >= 0 /\ stocks.current_pct <= 1000
    /\ \A i \in DOMAIN stocks.history :
           stocks.history[i].pct >= 0 /\ stocks.history[i].pct <= 1000
    /\ StepsAtMostTen

\* A user-facing stocks action has just applied a step that took the
\* percentage above 100.
C27_AboveHundredAfterStocksAction ==
    /\ last.op \in {"/stocks", "refresh"} /\ last.steps > 0
    /\ stocks.current_pct > 1000
    /\ stocks.current_pct <= STOCKS_PCT_MAX

\* The step just taken was a call of one of the tickers.
TickCalled == last'.op \in {"_stocks_task", "/stocks", "refresh"}

\* Every hour since the start has one sample, stamped on the hour.
HoursAppliedOnce ==
    /\ Len(stocks.history) = 1 + (stocks.last_tick - Epoch0) \div TICK_SECONDS
    /\ \A i \in DOMAIN stocks.history :
           stocks.history[i].t = Epoch0 + (i - 1) * TICK_SECONDS

\* C28: a tick call with elapsed = now - last_tick < 3600 changes nothing;
\* otherwise it applies exactly elapsed // 3600 steps and advances last_tick
\* by 3600 per step, never to now, so that across any interleaving of
\* background and user-triggered tick calls each elapsed hour is applied
\* exactly once and 0 <= now - last_tick < 3600 holds after every call.
C28_TickAppliesElapsedHours ==
    [][TickCalled =>
          LET elapsed == now - stocks.last_tick
              steps == elapsed \div TICK_SECONDS
          IN  /\ elapsed < TICK_SECONDS => stocks' = stocks
              /\ elapsed >= TICK_SECONDS =>
                     /\ stocks'.last_tick = stocks.last_tick + steps * TICK_SECONDS
                     /\ Len(stocks'.history) = Len(stocks.history) + steps
                     /\ SubSeq(stocks'.history, 1, Len(stocks.history)) = stocks.history
              /\ now' - stocks'.last_tick >= 0
              /\ now' - stocks'.last_tick < TICK_SECONDS
              /\ HoursAppliedOnce']_vars

\* A call an hour and a half after the last applied hour, and after an
\* earlier call by the other ticker: it applied one step, and last_tick is
\* half an hour behind the clock.
C28_CaughtUpOffTheHour ==
    /\ last.op = "_stocks_task" /\ last.steps = 1
    /\ Len(stocks.history) = 3
    /\ now - stocks.last_tick = ClockStep
    /\ \E uid \in Users : \E i \in DOMAIN users[uid].slots :
           /\ users[uid].slots[i] # None
           /\ users[uid].slots[i].income_per_day # users[uid].slots[i].base_income_per_day

-----------------------------------------------------------------------------
(* SpecLegacy: the ticker and the upgrade market over a store in which     *)
(* u1's business may carry an upgrade embedded in its record only, as      *)
(* records written before the purchases file existed do.                   *)
(***************************************************************************)

\* The upgrades embedded in u1's record: none, or one of +10%.
LegacyUpgrades == {<<>>, <<[id |-> 0, boost_pct |-> 100]>>}

InitLegacy ==
    /\ now = Epoch0
    /\ \E ups \in LegacyUpgrades :
           users = [UsersWith(BalancesStocks, Users) EXCEPT
                       !["u1"].slots[1].upgrades = ups,
                       !["u1"].slots[1].income_per_day =
                           PyRound(@ * (1000 + SumBoost(ups)), 1000)]
    /\ stocks = InitStocks
    /\ equity = [uid \in Users |-> [i \in SlotIdx |-> <<>>]]
    /\ trades = 0
    /\ purchases = [uid \in Users |-> [i \in SlotIdx |-> <<>>]]
    /\ market = [upgrades |-> <<>>, last_id |-> 0]
    /\ views = {}
    /\ battles = <<>>
    /\ ONGOING_BATTLES = [uid \in Users |-> 0]
    /\ handlers = {}
    /\ minigames = <<>>
    /\ ACTIVE_MINIGAMES = [uid \in Users |-> 0]
    /\ last = Quiet

SpecLegacy == InitLegacy /\ [][NextStocks]_vars

\* The boosts embedded in a business record.
LegacyBoost(slot) == SumBoost(slot.upgrades)

\* C29: total_boost_pct for (owner, slot) is the sum of boost_pct over that
\* slot's ledger entries whenever at least one entry is recorded, and when
\* no ledger entry is recorded for the slot it is the sum of the boosts
\* embedded in the legacy business record.
C29_LedgerFirstElseLegacy ==
    \A b \in Businesses :
        _total_boost_pct(SlotOf(b), b[1], b[2]) =
            IF purchases[b[1]][b[2]] # <<>>
            THEN SumBoost(purchases[b[1]][b[2]])
            ELSE LegacyBoost(SlotOf(b))

\* u1's business carries its +10% in the record only and is computed with no
\* boost at all, while another business, whose upgrade has just been
\* applied and entered in the ledger, is computed with its boost.
C29_LegacyBoostIgnored ==
    /\ last.op = "apply_to_slot" /\ last.reply = "applied"
    /\ purchases["u1"][1] = <<>>
    /\ LegacyBoost(users["u1"].slots[1]) = 100
    /\ _total_boost_pct(users["u1"].slots[1], "u1", 1) = 0
    /\ _effective_income_per_day(users["u1"].slots[1], "u1", 1)
           = PyRound(users["u1"].slots[1].income_per_day * users["u1"].slots[1].rating, 100)
    /\ \E b \in Businesses :
           /\ purchases[b[1]][b[2]] # <<>>
           /\ _total_boost_pct(SlotOf(b), b[1], b[2]) = LegacyBoost(SlotOf(b))
           /\ LegacyBoost(SlotOf(b)) > 0

-----------------------------------------------------------------------------
(* SpecCollect: the upgrade market, whose sales leave pending_collect on   *)
(* the seller's business, and the two ways of collecting, while time       *)
(* passes.                                                                 *)
(***************************************************************************)

\* collect._calc_accrued_for_slot: int(days * int(income_per_day)).
CollectAccrued(slot, t) ==
    PyInt(Max(0, t - LastCollected(slot, t)) * slot.income_per_day, DAY_SECONDS)

\* The loop of /collect over one slot: a positive amount is added to
\* total_earned and the collection time is set.
CollectedSlot(slot, t) ==
    IF slot = None THEN slot
    ELSE IF CollectAccrued(slot, t) > 0
    THEN [slot EXCEPT !.total_earned = @ + CollectAccrued(slot, t),
                      !.last_collected_at = t]
    ELSE slot

RECURSIVE TotalCollected(_, _)
TotalCollected(slots, t) ==
    IF slots = <<>> THEN 0
    ELSE (IF Head(slots) = None THEN 0 ELSE CollectAccrued(Head(slots), t))
         + TotalCollected(Tail(slots), t)

\* collect.CollectCommand.setup.collect: every business of the user.
collect ==
    \E uid \in Users :
        /\ users' = [users EXCEPT
               ![uid].slots = [i \in DOMAIN @ |-> CollectedSlot(@[i], now)],
               ![uid].balance = @ + TotalCollected(users[uid].slots, now)]
        /\ last' = Did("/collect", "collected")
        /\ UNCHANGED <<now, stocks, equity, trades, purchases, market, views, battles,
                       ONGOING_BATTLES, handlers, minigames, ACTIVE_MINIGAMES>>

\* passive.BusinessView.collect (only the owner gets past the first check).
BusinessView_collect ==
    \E uid \in Users : \E idx \in DOMAIN users[uid].slots :
        LET slot == users[uid].slots[idx]
            amount == _calc_accrued_for_slot(slot, uid, idx, now)
        IN  /\ IF slot = None
               THEN /\ last' = Did("BusinessView.collect", "slot_empty")
                    /\ UNCHANGED users
               ELSE IF amount <= 0
               THEN /\ last' = Did("BusinessView.collect", "nothing_to_collect")
                    /\ UNCHANGED users
               ELSE /\ users' = [users EXCEPT
                           ![uid].balance = @ + amount,
                           ![uid].slots[idx] =
                               [@ EXCEPT !.last_collected_at = now,
                                         !.pending_collect = 0,
                                         !.total_earned = @ + amount]]
                    /\ last' = Did("BusinessView.collect", "collected")
            /\ UNCHANGED <<now, stocks, equity, trades, purchases, market, views, battles,
                           ONGOING_BATTLES, handlers, minigames, ACTIVE_MINIGAMES>>

NextCollect ==
    \/ Advance
    \/ CreateUpgradeModal_on_submit
    \/ finalize_create
    \/ UpgradeSelect_callback
    \/ apply_to_slot
    \/ collect
    \/ BusinessView_collect

SpecCollect == InitStocksSpec /\ [][NextCollect]_vars

\* accrued(business) in the words of the claim: the elapsed days times
\* income_per_day, plus pending_collect, truncated.
Accrued(slot, t) ==
    PyInt(Max(0, t - LastCollected(slot, t)) * slot.income_per_day, DAY_SECONDS)
        + slot.pending_collect

RECURSIVE TotalAccrued(_, _)
TotalAccrued(slots, t) ==
    IF slots = <<>> THEN 0
    ELSE (IF Head(slots) = None THEN 0 ELSE Accrued(Head(slots), t))
         + TotalAccrued(Tail(slots), t)

\* A business that paid out is reset: collected now, nothing pending.
ResetWhereDue(old, new, t) ==
    (old # None /\ Accrued(old, t) > 0) =>
        new.last_collected_at = t /\ new.pending_collect = 0

\* C30: collecting a business credits the account with accrued(business),
\* the elapsed days since the last collection times income_per_day plus
\* pending_collect, truncated toward zero, and afterwards
\* last_collected_at = now and pending_collect = 0; this holds for the
\* /collect command, over all businesses of the user, and for the Collect
\* button of one business alike.
C30_CollectCreditsAccrued ==
    [][/\ last'.op = "/collect" =>
              \E uid \in Users :
                  /\ \A other \in Users \ {uid} : users'[other] = users[other]
                  /\ users'[uid].balance
                         = users[uid].balance + TotalAccrued(users[uid].slots, now)
                  /\ \A i \in DOMAIN users[uid].slots :
                         ResetWhereDue(users[uid].slots[i], users'[uid].slots[i], now)
       /\ last'.op = "BusinessView.collect" =>
              \E uid \in Users : \E idx \in DOMAIN users[uid].slots :
                  LET old == users[uid].slots[idx]
                      due == IF old = None THEN 0 ELSE Accrued(old, now)
                  IN  /\ \A other \in Users \ {uid} : users'[other] = users[other]
                      /\ users'[uid].balance = users[uid].balance + due
                      /\ ResetWhereDue(old, users'[uid].slots[idx], now)]_vars

\* /collect has just paid a user the income accrued, while the price of
\* the product that the business sold is still pending on it; the business
\* has a rating of 1.0 and no upgrade.
C30_CollectLeftPendingBehind ==
    /\ last.op = "/collect"
    /\ \E uid \in Users : \E i \in DOMAIN users[uid].slots :
           LET slot == users[uid].slots[i]
           IN  /\ slot # None
               /\ slot.pending_collect > 0
               /\ slot.last_collected_at = now
               /\ slot.total_earned > 0
               /\ slot.rating = 100
               /\ purchases[uid][i] = <<>>

-----------------------------------------------------------------------------
(* The equity record, under SpecEquity.                                    *)
(***************************************************************************)

\* No record holds two entries of one investor.
OneEntryPerInvestor ==
    \A owner_id \in Users, slot_index \in SlotIdx, investor_id \in Users :
        Len(EntriesOf(equity[owner_id][slot_index], investor_id)) <= 1

\* C31: for every business the equity record holds at most one entry per
\* investor: a repeat purchase by an investor who already holds a stake adds
\* the new pct and paid amounts to the existing entry instead of appending
\* a second entry.
C31_OneEntryPerInvestor ==
    [][/\ OneEntryPerInvestor'
       /\ \A v \in views \ views' :
              LET old == equity[v.owner_id][v.slot_index]
                  new == equity'[v.owner_id][v.slot_index]
                  mine == EntriesOf(old, v.user)
                  grown == EntriesOf(new, v.user)
              IN  (/\ v.kind = "PurchaseConfirmView"
                   /\ last'.reply = "purchased"
                   /\ mine # <<>>) =>
                      /\ Len(new) = Len(old)
                      /\ Len(grown) = 1
                      /\ grown[1].pct = FAdd(mine[1].pct, v.pct)
                      /\ grown[1].paid = mine[1].paid + v.amount]_vars

\* An investor has just bought a second stake in the same business: the
\* record still has the one entry, which holds both amounts paid.
C31_RepeatPurchaseMerged ==
    /\ last.op = "PurchaseConfirmView._confirm" /\ last.reply = "purchased"
    /\ trades = 2
    /\ \E owner_id \in Users, slot_index \in SlotIdx :
           LET rec == equity[owner_id][slot_index]
           IN  /\ Len(rec) = 1
               /\ rec[1].paid = users[owner_id].balance - BalancesEquity[owner_id]
               /\ \A o \in Users, i \in SlotIdx :
                      <<o, i>> # <<owner_id, slot_index>> => equity[o][i] = <<>>

-----------------------------------------------------------------------------
(* The upgrade market, under SpecStocks.                                   *)
(***************************************************************************)

\* The ledger entries, over all users and slots, that record listing id.
RECURSIVE CountId(_, _)
CountId(ups, id) ==
    IF ups = <<>> THEN 0
    ELSE (IF Head(ups).id = id THEN 1 ELSE 0) + CountId(Tail(ups), id)

RECURSIVE SumOver(_, _)
SumOver(f, S) ==
    IF S = {} THEN 0
    ELSE LET x == CHOOSE y \in S : TRUE IN f[x] + SumOver(f, S \ {x})

TimesPurchased(id) ==
    SumOver([b \in Users \X SlotIdx |-> CountId(purchases[b[1]][b[2]], id)],
            Users \X SlotIdx)

Listed(id) == \E k \in DOMAIN market.upgrades : market.upgrades[k].id = id

\* C32: purchasing an upgrade removes its listing from the open market and
\* appends an entry for it to the buyer's purchased-upgrades ledger for the
\* chosen slot; each listing is purchased at most once, also when two
\* buyers opened the purchase view for the same listing before either of
\* them completed the purchase.
C32_ListingPurchasedOnce ==
    [][/\ (last'.op = "apply_to_slot" /\ last'.reply = "applied") =>
              \E v \in views \ views' : \E slot_index \in SlotIdx :
                  /\ ~Listed(v.upgrade.id)'
                  /\ purchases' = [purchases EXCEPT ![v.user][slot_index] =
                         Append(@, [id |-> v.upgrade.id,
                                    boost_pct |-> v.upgrade.boost_pct])]
       /\ \A id \in 1..market'.last_id :
              /\ TimesPurchased(id)' <= 1
              /\ Listed(id)' => TimesPurchased(id)' = 0]_vars

\* Two buyers had opened the purchase view of the same listing: the second
\* of them has just bought it as well, and the seller's business has sold
\* the one product twice.
C32_ListingPurchasedTwice ==
    /\ last.op = "apply_to_slot" /\ last.reply = "applied"
    /\ \E id \in 1..market.last_id :
           /\ TimesPurchased(id) = 2
           /\ ~Listed(id)
    /\ \E uid \in Users : \E i \in DOMAIN users[uid].slots :
           /\ users[uid].slots[i] # None
           /\ users[uid].slots[i].products_sold = 2
           /\ market.last_id = 1

-----------------------------------------------------------------------------
(* SpecIncome: the effective income of u1's business, whose stored income, *)
(* rating and ledger are drawn at the start, applied by the collections    *)
(* and the sale of the business while time passes.                         *)
(***************************************************************************)

\* Stored incomes, ratings (hundredths) and ledgers of u1's business.
IncomeBases == {0, 5, 30, 250}
IncomeRatings == {10, 50, 70, 100, 250}
IncomeLedgers ==
    {<<>>,
     <<[id |-> 1, boost_pct |-> 50]>>,
     <<[id |-> 1, boost_pct |-> 100]>>,
     <<[id |-> 1, boost_pct |-> 100], [id |-> 2, boost_pct |-> 125]>>}

InitIncome ==
    /\ now = Epoch0
    /\ \E base \in IncomeBases, rating \in IncomeRatings :
           users = [UsersWith(BalancesStocks, Users) EXCEPT
                       !["u1"].slots[1].income_per_day = base,
                       !["u1"].slots[1].rating = rating]
    /\ stocks = InitStocks
    /\ equity = [uid \in Users |-> [i \in SlotIdx |-> <<>>]]
    /\ trades = 0
    /\ \E ups \in IncomeLedgers :
           purchases = [uid \in Users |-> [i \in SlotIdx |->
                           IF uid = "u1" /\ i = 1 THEN ups ELSE <<>>]]
    /\ market = [upgrades |-> <<>>, last_id |-> 2]
    /\ views = {}
    /\ battles = <<>>
    /\ ONGOING_BATTLES = [uid \in Users |-> 0]
    /\ handlers = {}
    /\ minigames = <<>>
    /\ ACTIVE_MINIGAMES = [uid \in Users |-> 0]
    /\ last = Quiet

NextIncome ==
    \/ Advance
    \/ collect
    \/ BusinessView_collect
    \/ BusinessView_sell

SpecIncome == InitIncome /\ [][NextIncome]_vars

\* The total boosts (tenths of a percent) that the ledgers give.
IncomeBoosts == {SumBoost(ups) : ups \in IncomeLedgers}

\* C33: for fixed base >= 0, effective_income is monotonically
\* non-decreasing in rating (total boost fixed) and monotonically
\* non-decreasing in total upgrade boost (rating fixed).
C33_EffectiveIncomeMonotone ==
    \A b \in Businesses :
        LET slot == SlotOf(b)
            boost == _total_boost_pct(slot, b[1], b[2])
            here == _effective_income_per_day(slot, b[1], b[2])
        IN  /\ here = EffectiveOf(slot, boost)
            /\ \A rating \in IncomeRatings :
                   /\ rating >= slot.rating =>
                          EffectiveOf([slot EXCEPT !.rating = rating], boost) >= here
                   /\ rating <= slot.rating =>
                          EffectiveOf([slot EXCEPT !.rating = rating], boost) <= here
            /\ \A more \in IncomeBoosts :
                   /\ more >= boost => EffectiveOf(slot, more) >= here
                   /\ more <= boost => EffectiveOf(slot, more) <= here

\* u1 has just collected two hours of a business of 30 a day with a rating
\* of 2.5 and a boost of 5%: the effective income is 79 (78.75 rounded),
\* more than with a rating of 0.7 and more than without the boost.
C33_CollectedAtRoundedIncome ==
    /\ last.op = "BusinessView.collect" /\ last.reply = "collected"
    /\ users["u1"].slots[1] # None
    /\ users["u1"].slots[1].income_per_day = 30
    /\ users["u1"].slots[1].rating = 250
    /\ SumBoost(purchases["u1"][1]) = 50
    /\ _effective_income_per_day(users["u1"].slots[1], "u1", 1) = 79
    /\ users["u1"].slots[1].total_earned = 6
    /\ EffectiveOf([users["u1"].slots[1] EXCEPT !.rating = 70], 50) = 22
    /\ EffectiveOf(users["u1"].slots[1], 0) = 75

-----------------------------------------------------------------------------
(* The end of a battle, under SpecBattle.                                  *)
(***************************************************************************)

\* The stored ratings of the two chosen businesses are the ratings of the
\* session, floor-clamped.
RatingsStored(battle, us) ==
    /\ us[battle.a_id].slots[battle.a_choice].rating = Max(RATING_FLOOR, battle.a_rating)
    /\ us[battle.b_id].slots[battle.b_choice].rating = Max(RATING_FLOOR, battle.b_rating)

\* The step ends the started battle of session n.
BattleEnds(n) ==
    /\ battles[n].started /\ ~battles[n].battle_over
    /\ battles'[n].battle_over

\* C34: whenever a started battle reaches its terminal state, by rating
\* threshold, by forfeit or by inactivity timeout, the stored ratings of
\* both chosen businesses equal the session's ratings at that moment
\* (floor-clamped at 0.1).
C34_RatingsStoredAtTheEnd ==
    [][\A n \in Sessions : BattleEnds(n) => RatingsStored(battles'[n], users')]_vars

\* The same for the battles that end by threshold or by forfeit.
FinalizedRatingsStored ==
    [][\A n \in Sessions :
          (BattleEnds(n) /\ last'.op # "BattleView.on_timeout") =>
              RatingsStored(battles'[n], users')]_vars

\* A battle has just timed out after its first round was judged: A's
\* business is stored with the rating it had before the battle, not with
\* the rating of the session.
C34_TimedOutRatingsDropped ==
    /\ last.op = "BattleView.on_timeout"
    /\ \E n \in Sessions :
           /\ battles[n].started /\ battles[n].battle_over /\ battles[n].finished
           /\ battles[n].round = 2
           /\ ~battles[n].judging
           /\ battles[n].a_rating # battles[n].a_start_rating
           /\ users[battles[n].a_id].slots[battles[n].a_choice].rating
                  = battles[n].a_start_rating

\* The wins and the losses stored on all businesses.
StoredWins ==
    SumOver([b \in Businesses |-> SlotOf(b).wins], Businesses)
StoredLosses ==
    SumOver([b \in Businesses |-> SlotOf(b).losses], Businesses)

\* C35: each battle's outcome is persisted at most once: over the lifetime
\* of one battle session the winner's business gains exactly one win and
\* the loser's business exactly one loss in total, also when a forfeit is
\* pressed while a round is still being judged and the judging step
\* resumes afterwards.
C35_OutcomePersistedOnce ==
    /\ StoredWins <= Len(battles)
    /\ StoredLosses <= Len(battles)
    /\ StoredWins = StoredLosses
    /\ \A b \in Businesses : SlotOf(b).wins + SlotOf(b).losses <= Len(battles)

\* A forfeited the battle while the round was with the judge; the judging
\* resumed, the round took A to the threshold, and the battle was finalized
\* a second time: B's business has two wins from the one battle.
C35_TwoWinsFromOneBattle ==
    /\ last.op = "BattleView.judge" /\ last.reply \in {"B_wins", "ai_detection:B_wins"}
    /\ Len(battles) = 1
    /\ battles[1].battle_over /\ ~battles[1].finished
    /\ users[battles[1].b_id].slots[battles[1].b_choice].wins = 2
    /\ users[battles[1].a_id].slots[battles[1].a_choice].losses = 2

-----------------------------------------------------------------------------
(* A pitch judged after the game ended, under SpecPitchRace.               *)
(***************************************************************************)

\* C36: once a minigame session is over it applies no further change to the
\* owner's balance, to the rating of the business or to its win and fail
\* counts, and so credits the victory bonus at most once: a pitch result
\* that arrives for a session that has already ended changes nothing.
C36_FinishedGameChangesNothing ==
    [][\A p \in handlers \ handlers' :
           (p.kind = "pitch" /\ minigames[p.session].over) =>
               /\ users' = users
               /\ minigames'[p.session].wins <= minigames[p.session].wins
               /\ minigames'[p.session].fails <= minigames[p.session].fails]_vars

\* The only game was ended with its first pitch still with the judge, and
\* the pitch has now been judged no sale: the game counts nothing, and yet
\* the business has lost rating.
C36_RatingLostAfterEndDay ==
    /\ last.op = "SellingView.apply_result_and_advance" /\ last.reply = "no_sale"
    /\ Len(minigames) = 1
    /\ minigames[1].over /\ minigames[1].wins = 0 /\ minigames[1].fails = 0
    /\ \E b \in Businesses :
           /\ b[1] = minigames[1].owner_id
           /\ SlotOf(b).rating < 100

-----------------------------------------------------------------------------
(* Every operation that moves a balance, together: SpecAccounts.           *)
(***************************************************************************)

MaxSlots == 2
MaxAccountOps == 2
MaxAccountGames == 1

\* passive._next_slot_cost: 1000 * 2 ** purchased_slots
_next_slot_cost(user) == 1000 * 2 ^ user.purchased_slots

\* A check of the funds that lets every purchase through.
AffordsAnything(user, cost) == TRUE

\* `if user['balance'] < cost:` refuses; otherwise the purchase goes on.
Affords(user, cost) == ~(user.balance < cost)

\* passive.SlotSelect.callback with the choice 'buy' (only the owner of the
\* menu gets this far): a new empty slot for the price of the next slot.
SlotSelect_callback ==
    \E uid \in Users :
        LET user == users[uid]
            cost == _next_slot_cost(user)
        IN  /\ Len(user.slots) < MaxSlots
            /\ IF ~Affords(user, cost)
               THEN /\ last' = Did("SlotSelect.callback", "not_enough_funds")
                    /\ UNCHANGED users
               ELSE /\ users' = [users EXCEPT
                           ![uid].balance = @ - cost,
                           ![uid].slots = Append(@, None),
                           ![uid].purchased_slots = @ + 1]
                    /\ last' = Did("SlotSelect.callback", "purchased")
            /\ UNCHANGED <<now, stocks, equity, trades, purchases, market, views,
                           battles, ONGOING_BATTLES, handlers, minigames,
                           ACTIVE_MINIGAMES>>

\* u1 has saved the price of a slot; u2 holds the starting balance and u3,
\* who has no business, a little.
BalancesAccounts ==
    [uid \in Users |-> CASE uid = "u1" -> 1000 [] uid = "u2" -> 100 [] OTHER -> 13]

AccountOwners == {"u1", "u2"}

\* The businesses of u1 and u2 are an hour old: they may be sold, and the
\* older one has income to collect.
InitAccounts ==
    /\ now = Epoch0 + 2 * ClockStep
    /\ users = UsersWith(BalancesAccounts, AccountOwners)
    /\ stocks = [InitStocks EXCEPT !.last_tick = now]
    /\ equity = [uid \in Users |-> [i \in SlotIdx |-> <<>>]]
    /\ trades = 0
    /\ purchases = [uid \in Users |-> [i \in SlotIdx |-> <<>>]]
    /\ market = [upgrades |-> <<>>, last_id |-> 0]
    /\ views = {}
    /\ battles = <<>>
    /\ ONGOING_BATTLES = [uid \in Users |-> 0]
    /\ handlers = {}
    /\ minigames = <<>>
    /\ ACTIVE_MINIGAMES = [uid \in Users |-> 0]
    /\ last = Quiet

\* The businesses that were sold, and those whose income was collected.
SoldBy == {uid \in AccountOwners :
              users[uid].slots[1] = None \/ users[uid].slots[1].created_at = 0}
CollectedOf == {b \in Businesses : SlotOf(b).last_collected_at > SlotOf(b).created_at}

\* What has been begun so far: stake trades made, menus open, upgrades
\* listed, games begun, slots bought, businesses sold and collections.
AccountOps ==
    trades + Cardinality(views) + market.last_id + Len(minigames)
        + SumOver([uid \in Users |-> users[uid].purchased_slots], Users)
        + Cardinality(SoldBy) + Cardinality(CollectedOf)

OpsLeft == AccountOps < MaxAccountOps

\* Slot purchases, upgrade purchases, stake buys and sells, minigame
\* rewards and penalties, collections and business sales, in any order; a
\* bounded number of them is begun, and whatever was begun may be finished
\* at any time.
NextAccounts ==
    \/ OpsLeft /\ SlotSelect_callback
    \/ OpsLeft /\ CreateUpgradeModal_on_submit
    \/ finalize_create
    \/ OpsLeft /\ UpgradeSelect_callback
    \/ apply_to_slot
    \/ OpsLeft /\ BuyStockSelect_callback
    \/ BuyStockConfirmView_buy
    \/ BuyStakeModal_on_submit
    \/ PurchaseConfirmView_confirm
    \/ OpsLeft /\ SellStakeSelect_callback
    \/ SellStakeConfirmView_sell
    \/ SellStakeModal_on_submit
    \/ SellConfirmView_confirm
    \/ ViewTimeout
    \/ OpsLeft /\ Len(minigames) < MaxAccountGames /\ minigame
    \/ minigame_registers
    \/ StartsSettled /\ PitchesJudged /\ SellingView_sel_cb
    \/ StartsSettled /\ PitchesJudged /\ PitchModal_on_submit
    \/ SellingView_apply_result_and_advance
    \/ StartsSettled /\ PitchesJudged /\ SellingView_next_cb
    \/ OpsLeft /\ collect
    \/ OpsLeft /\ BusinessView_collect
    \/ OpsLeft /\ BusinessView_sell

SpecAccounts == InitAccounts /\ [][NextAccounts]_vars

\* C37: no account balance is ever negative: after any sequence of slot
\* purchases, upgrade purchases, stake buys and sells, minigame rewards and
\* penalties, collections and business sales, every stored balance is >= 0.
C37_NoNegativeBalance == \A uid \in Users : users[uid].balance >= 0

\* u1 has spent the whole balance on a second slot and then lost a pitch:
\* the penalty is taken from an empty account, which stays at 0.
C37_PenaltyOnEmptyAccount ==
    /\ last.op = "SellingView.apply_result_and_advance" /\ last.reply = "no_sale"
    /\ Len(minigames) = 1 /\ minigames[1].owner_id = "u1"
    /\ users["u1"].purchased_slots = 1
    /\ Len(users["u1"].slots) = 2
    /\ users["u1"].balance = 0

-----------------------------------------------------------------------------
(* Stake trades move money between two accounts, under SpecEquity.         *)
(***************************************************************************)

TotalBalance == SumOver(Balances, Users)

\* C38: a stake buy or sell that goes through conserves currency: the sum of the
\* investor's and the owner's balances is the same before and after the
\* transaction, and no other account's balance changes.
C38_StakeTradeConservesCurrency ==
    [][\A v \in views \ views' :
           (/\ v.kind \in {"PurchaseConfirmView", "SellConfirmView"}
            /\ last'.op \in {"PurchaseConfirmView._confirm", "SellConfirmView._confirm"}
            /\ last'.reply \in {"purchased", "sold"}) =>
               /\ Balances'[v.user] + Balances'[v.owner_id]
                      = Balances[v.user] + Balances[v.owner_id]
               /\ \A uid \in Users \ {v.user, v.owner_id} :
                      Balances'[uid] = Balances[uid]
               /\ TotalBalance' = TotalBalance]_vars

\* The third trade, a sale, has just been made: money has moved between
\* the accounts and the total is what it was at the start.
C38_MoneyMovedTotalKept ==
    /\ last.op = "SellConfirmView._confirm" /\ last.reply = "sold"
    /\ trades = MaxTrades
    /\ Balances # BalancesEquity
    /\ TotalBalance = SumOver(BalancesEquity, Users)

-----------------------------------------------------------------------------
(* A slot that is sold and filled again: SpecResale.                       *)
(***************************************************************************)

MaxResaleTrades == 2
MaxResaleClock == 1

\* The totals the scoring gives a new business.
ScoreTotals == {0, 12}

\* The users who create a business: u1, in the slot that a sale emptied.
Creators == {"u1"}

\* passive.CreateBusinessModal.on_submit, from the scoring on (the awaits
\* before it change nothing that is stored; SlotSelect.callback sends the
\* modal for an empty slot only and locks the menu until it completes): the
\* business is written into the slot and the ledger entries of the slot
\* are dropped.
CreateBusinessModal_on_submit ==
    \E uid \in Creators, idx \in SlotIdx, total \in ScoreTotals :
        /\ idx \in DOMAIN users[uid].slots
        /\ users[uid].slots[idx] = None
        /\ users' = [users EXCEPT ![uid].slots[idx] = NewBusiness(uid, total, now)]
        /\ purchases' = ClearedLedger(purchases, uid, idx)
        /\ last' = Did("CreateBusinessModal.on_submit", "created")
        /\ UNCHANGED <<now, stocks, equity, trades, market, views, battles,
                       ONGOING_BATTLES, handlers, minigames, ACTIVE_MINIGAMES>>

\* u1 has a business and has bought an upgrade for it.
InitResale ==
    /\ now = Epoch0
    /\ users = UsersWith(BalancesEquity, {"u1"})
    /\ stocks = InitStocks
    /\ equity = [uid \in Users |-> [i \in SlotIdx |-> <<>>]]
    /\ trades = 0
    /\ purchases = [uid \in Users |-> [i \in SlotIdx |->
                       IF uid = "u1" THEN <<[id |-> 1, boost_pct |-> 50]>> ELSE <<>>]]
    /\ market = [upgrades |-> <<>>, last_id |-> 1]
    /\ views = {}
    /\ battles = <<>>
    /\ ONGOING_BATTLES = [uid \in Users |-> 0]
    /\ handlers = {}
    /\ minigames = <<>>
    /\ ACTIVE_MINIGAMES = [uid \in Users |-> 0]
    /\ last = Quiet

NextResale ==
    \/ now < Epoch0 + MaxResaleClock * ClockStep /\ Advance
    \/ trades < MaxResaleTrades /\ BuyStockSelect_callback
    \/ BuyStockConfirmView_buy
    \/ BuyStakeModal_on_submit
    \/ PurchaseConfirmView_confirm
    \/ trades < MaxResaleTrades /\ SellStakeSelect_callback
    \/ SellStakeConfirmView_sell
    \/ SellStakeModal_on_submit
    \/ SellConfirmView_confirm
    \/ ViewTimeout
    \/ BusinessView_sell
    \/ CreateBusinessModal_on_submit

SpecResale == InitResale /\ [][NextResale]_vars

\* C39: selling a business empties its slot and clears that slot's
\* purchased-upgrades ledger but leaves the slot's equity record untouched,
\* so the investor stakes recorded for the sold business remain in the
\* equity document and attach to any business later created in the same
\* slot: creating a business leaves the record as it is, and the record of
\* owner and slot is the one the new business has.
C39_SaleLeavesEquity ==
    [][/\ (last'.op = "BusinessView.sell" /\ last'.reply = "sold") =>
              /\ equity' = equity
              /\ \E b \in Businesses :
                     /\ users' = [users EXCEPT
                            ![b[1]].slots[b[2]] = None,
                            ![b[1]].balance = users'[b[1]].balance]
                     /\ purchases' = [purchases EXCEPT ![b[1]][b[2]] = <<>>]
       /\ last'.op = "CreateBusinessModal.on_submit" =>
              /\ equity' = equity
              /\ \E uid \in Users, idx \in SlotIdx :
                     /\ users[uid].slots[idx] = None
                     /\ users'[uid].slots[idx] # None
                     /\ \A investor \in Users :
                            OwnedPct(equity'[uid][idx], investor)
                                = OwnedPct(equity[uid][idx], investor)]_vars

\* u1's business was sold with a stake in it and a new business has just
\* been created in the slot: the new business has the old stake.
C39_NewBusinessInheritsStake ==
    /\ last.op = "CreateBusinessModal.on_submit"
    /\ users["u1"].slots[1] # None
    /\ users["u1"].slots[1].created_at > Epoch0
    /\ equity["u1"][1] # <<>>
    /\ purchases["u1"][1] = <<>>

\* An investor has just sold, against the new business, the stake bought
\* in the business that the slot held before.
InheritedStakeSold ==
    /\ last.op = "SellConfirmView._confirm" /\ last.reply = "sold"
    /\ users["u1"].slots[1] # None
    /\ users["u1"].slots[1].created_at > Epoch0
    /\ trades = 2

-----------------------------------------------------------------------------
(* Both players at the threshold after one round, under SpecBattle.        *)
(***************************************************************************)

BothAtThreshold(battle) ==
    /\ AtOrBelowThreshold(battle.a_rating, battle.a_start_rating)
    /\ AtOrBelowThreshold(battle.b_rating, battle.b_start_rating)

\* C40: when after a judged round both players are at or below their own
\* thresholds (both arguments flagged, both ratings dropped), the battle is
\* finalized with player B, the challenged user, recorded as the winner and
\* player A, the challenger, as the loser: A's threshold is checked first.
C40_BothAtThresholdBWins ==
    [][\A j \in handlers \ handlers' :
           (/\ j.kind = "judge"
            /\ last'.op = "BattleView.judge" /\ last'.reply # "raised"
            /\ BothAtThreshold(battles'[j.session])) =>
               LET new == battles'[j.session]
                   a_id == new.a_id
                   b_id == new.b_id
                   a == ChoiceOrFirst(new.a_choice)
                   b == ChoiceOrFirst(new.b_choice)
               IN  /\ new.battle_over
                   /\ last'.reply \in {"B_wins", "ai_detection:B_wins"}
                   /\ users'[b_id].slots[b].wins = users[b_id].slots[b].wins + 1
                   /\ users'[a_id].slots[a].losses = users[a_id].slots[a].losses + 1
                   /\ users'[a_id].slots[a].wins = users[a_id].slots[a].wins
                   /\ users'[b_id].slots[b].losses = users[b_id].slots[b].losses]_vars

\* Both arguments of the round were flagged and both players, who began at
\* 1.0, have come down to 0.5: the battle is over, B's business has the win
\* and A's the loss.
C40_DoubleFlagEndsForB ==
    /\ last.op = "BattleView.judge" /\ last.reply = "ai_detection:B_wins"
    /\ Len(battles) = 1
    /\ battles[1].battle_over /\ ~battles[1].finished
    /\ BothAtThreshold(battles[1])
    /\ battles[1].a_choice # 0 /\ battles[1].b_choice # 0
    /\ users[battles[1].b_id].slots[battles[1].b_choice].wins = 1
    /\ users[battles[1].b_id].slots[battles[1].b_choice].losses = 0
    /\ users[battles[1].a_id].slots[battles[1].a_choice].wins = 0
    /\ users[battles[1].a_id].slots[battles[1].a_choice].losses = 1

=============================================================================
